---- MODULE Spec2Model ----
(***************************************************************************)
(* Browser task orchestrator of browser-agent-backend:                     *)
(*   BrowserAgent (infrastructure/browser_automation_latest/               *)
(*   browser_agent.py) and BrowserUseCase (src/usecases/                   *)
(*   browser_usecase.py).                                                  *)
(*                                                                         *)
(* One request is one Agent Session.  run() is a sequential procedure; its *)
(* position is pc, and every action below is one segment of run() or of    *)
(* the use case between two suspension points, together with the primitive *)
(* it awaits.  The browser, the pages it shows and the user in front of it *)
(* are the environment: what a navigation loads is a nondeterministic      *)
(* choice of page state.                                                   *)
(*                                                                         *)
(* A TaskResult's data is a Python dict: an object that RECORD_STEP and    *)
(* TaskResult.dict() pass by reference.  The model keeps these objects in  *)
(* heap and lets results and Step Records hold their index.                *)
(***************************************************************************)
EXTENDS Integers, Sequences, FiniteSets, TLC

\* ------------------------------------------------------------------ bounds
\* number of polls that fit in max_wait_seconds (300 s / 3 s in the source)
MaxPolls == 2
\* number of Result Entries a results page yields at most
MaxResults == 2
\* length of the fallback list the oracle may return
MaxFallbacks == 2

\* --------------------------------------------------------- program constants
\* run() enriches read_result.data["results"][:3]
DetailLimit == 3

\* ---------------------------------------------------------------- vocabulary
CAPTCHA == "CAPTCHA_DETECTED"
ALL_BLOCKED == "ALL_FALLBACKS_BLOCKED"
Null == "null"
\* any other error text: str(e) of an exception, "Search box element not found", ...
OtherErr == "error"

Blank == "about:blank"
DdgHome == "https://www.duckduckgo.com/"
DdgResults == "https://duckduckgo.com/?q=query"
SiteUrl == "https://www.wikipedia.org/"
SiteChallenge == "https://www.wikipedia.org/challenge"
GoogleSorry == "https://www.google.com/sorry/index"
BingHome == "https://www.bing.com/"
BingResults == "https://www.bing.com/search?q=query"
ResultUrl == "https://example.com/article"

\* values a data["url"] can hold besides a page url
Absent == "<absent>"
PyNone == "<None>"
CurrentPage == "current page"
MultipleUrls == "Multiple URLs"

\* captcha_url_indicators = ['/sorry/', 'captcha', 'challenge', 'verify']
UrlHasIndicator(u) == u \in {SiteChallenge, GoogleSorry}

Actions == {"OPEN_URL", "SEARCH_DUCKDUCKGO", "READ_PAGE", "FIX_ISSUE"}
FallbackTypes == {"search_engine", "site_search", "cache"}

\* handles of the session: None, a live object, or a closed one
NoHandles == [playwright |-> "none", browser |-> "none", context |-> "none", page |-> "none"]
OpenHandles == [playwright |-> "open", browser |-> "open", context |-> "open", page |-> "open"]
\* async_playwright().start() succeeded and chromium.launch raised
HalfHandles == [playwright |-> "open", browser |-> "none", context |-> "none", page |-> "none"]

\* a launch on every call (a variant the idempotence property C35 must reject)
LaunchAgain(h) == OpenHandles

\* initialize_browser: launches only when self.playwright is None
initialize_browser(h) == IF h.playwright = "none" THEN OpenHandles ELSE h

\* ----------------------------------------------------------------- TaskResult
\* data dict: title and url (a value or Absent), the other keys it holds,
\* and the value of its "captcha_urls" key
Data(t, u, ks) == [title |-> t, url |-> u, keys |-> ks, captcha_urls |-> <<>>]
EmptyData == Data(Absent, Absent, {})

\* TaskResult(success, error, data): data is the index of its dict in the heap
TaskResult(s, e, d) == [success |-> s, error |-> e, data |-> d]
NoResult == TaskResult(FALSE, "<no result>", 0)

VARIABLES
    \* ---- Agent Session (BrowserAgent.__init__)
    handles,            \* playwright, browser, context, page handles
    captcha_detected,   \* self.captcha_detected
    captcha_url,        \* self.captcha_url
    captcha_urls,       \* self.captcha_urls (created on first use)
    recorded_steps,     \* self.recorded_steps
    heap,               \* the data dicts of every TaskResult built so far
    \* ---- browser (environment)
    pages,              \* what the pages of the context show: 0 is the page of
                        \* initialize_browser, i the tab of fallback attempt i
    cur,                \* the page self.page refers to
    \* ---- run()
    pc,
    query,              \* what the task query is like
    llm_service,        \* the reasoning oracle the agent was given
    plan,               \* plan.action
    result,             \* local result
    read_result,        \* local read_result / fallback_result
    fallbacks,          \* local fallbacks
    idx,                \* loop index (fallback i, result i)
    nresults,           \* len(read_result.data["results"])
    details,            \* len(detailed_results)
    wait,               \* WAIT_FOR_CAPTCHA_COMPLETION: elapsed polls, caller, outcome
    final,              \* what run() returned
    \* ---- use case
    outcome,            \* the Task Outcome
    force_close,        \* the argument cleanup was called with
    \* ---- history
    hist,
    reader,             \* READ_TOP_RESULTS at work on a page of links
    corrector,          \* _correct_website_typos at work on a query
    workstreams,        \* what became of the Workstream record of the task
    requests            \* two requests served at once, and their agents

vars == <<handles, captcha_detected, captcha_url, captcha_urls, recorded_steps, heap,
          pages, cur, pc, query, llm_service, plan, result, read_result, fallbacks, idx, nresults,
          details, wait, final, outcome, force_close, hist, reader, corrector, workstreams,
          requests>>

session == <<handles, captcha_detected, captcha_url, captcha_urls, recorded_steps, heap>>
browser == <<pages, cur>>
locals == <<plan, result, read_result, fallbacks, idx, nresults, details>>
usecase == <<outcome, force_close>>

\* ------------------------------------------------------------------ pages
Page(c, u) == [challenge |-> c, url |-> u]
BlankPage == Page(FALSE, Blank)

\* a tab that was not opened, or was closed
NoPage == Page(FALSE, "<no page>")
MainPage == 0
Tabs == 1..MaxFallbacks

\* DETECT_CAPTCHA: a predicate of the page self.page shows
DETECT_CAPTCHA(pgs, c) == pgs[c].challenge

\* what a navigation to the task's site can load
SitePages == {Page(FALSE, SiteUrl), Page(TRUE, SiteUrl),
              Page(TRUE, SiteChallenge), Page(FALSE, SiteChallenge)}

\* ------------------------------------------------------------ RECORD_STEP
StepRecord(desc, r) == [step |-> desc, success |-> r.success, result |-> r]

\* a RECORD_STEP that overwrites the newest record (a variant the append-only
\* property C4 must reject)
OverwriteLast(steps, desc, r) ==
    IF steps = <<>>
    THEN <<StepRecord(desc, r)>>
    ELSE [steps EXCEPT ![Len(steps)] = StepRecord(desc, r)]

\* RECORD_STEP: appends {"step", "success", "result": result.dict()}; dict()
\* returns self.data itself, so the record shares the data object
RECORD_STEP(steps, desc, r) == Append(steps, StepRecord(desc, r))

\* the content of a Step Record as a reader sees it
StepContent(h, st) ==
    [step |-> st.step, success |-> st.success,
     result |-> [success |-> st.result.success, error |-> st.result.error,
                 data |-> IF st.result.data = 0 THEN EmptyData ELSE h[st.result.data]]]

\* ------------------------------------------------------------- primitives
\* a primitive whose failures other than the CAPTCHA carry no error (a variant
\* the property about failures C33 must reject)
SilentOutcome(s, e, d, f, p, i) ==
    [success |-> s, error |-> IF e = CAPTCHA THEN e ELSE Null, data |-> d, flag |-> f,
     page |-> p, init |-> i, curl |-> IF f THEN p.url ELSE PyNone]

\* What a primitive did: the TaskResult it returns (success, error, the data
\* dict it builds), whether it set captcha_detected / captcha_url, the page
\* the current tab shows afterwards, and whether the browser launch failed.
Outcome(s, e, d, f, p, i) ==
    [success |-> s, error |-> e, data |-> d, flag |-> f, page |-> p, init |-> i,
     curl |-> IF f THEN p.url ELSE PyNone]

\* the except branch of a primitive whose initialize_browser raised; possible
\* only while nothing has been launched
InitFailure(h, d, p) ==
    IF h.playwright = "none" THEN {Outcome(FALSE, OtherErr, d, FALSE, p, "fail")} ELSE {}

\* the result a primitive builds from the page it loaded: the CAPTCHA branch
\* (flag, captcha_url, title and url of the page) or the success branch
Loaded(p, ks) ==
    IF p.challenge
    THEN Outcome(FALSE, CAPTCHA, Data("title", p.url, {}), TRUE, p, "ok")
    ELSE Outcome(TRUE, Null, Data("title", p.url, ks), FALSE, p, "ok")

\* OPEN_URL(url): goto, DETECT_CAPTCHA, then title and url of the page;
\* any exception gives success=False with data {"url": url}
OPEN_URL(h, p, url) ==
    InitFailure(h, Data(Absent, url, {}), p)
    \cup {Outcome(FALSE, OtherErr, Data(Absent, url, {}), FALSE, p, "ok")}
    \cup {Loaded(q, {}) : q \in SitePages}

\* READ_PAGE(None): DETECT_CAPTCHA on the current page, then the Page Report
ReadCurrent(p, url) ==
    {Loaded(p, {})}
    \cup {Outcome(FALSE, OtherErr, Data(Absent, url, {}), FALSE, p, "ok")}

\* READ_PAGE(url): with a url it first calls OPEN_URL and returns its result
\* only when that is a CAPTCHA; otherwise it reads whatever page is current
READ_PAGE(h, p, url) ==
    IF url = PyNone
    THEN ReadCurrent(p, CurrentPage)
    ELSE InitFailure(h, Data(Absent, url, {}), p)
         \cup UNION {IF o.error = CAPTCHA THEN {o} ELSE ReadCurrent(o.page, url)
                     : o \in {x \in OPEN_URL(OpenHandles, p, url) : x.init = "ok"}}

\* a primitive that reports a challenge and leaves the flag alone (a variant
\* the property about blocked runs C36 must reject)
FlagKept(f, o) == f

\* the session after a primitive returned o: the browser is launched (or half
\* launched), the detection flag and url are set by the CAPTCHA branch, and the
\* result's data dict is a new object
HandlesAfter(h, o) == IF o.init = "fail" THEN HalfHandles ELSE initialize_browser(h)
FlagAfter(f, o) == f \/ o.flag
UrlAfter(u, o) == IF o.flag THEN o.curl ELSE u
ResultOf(h, o) == TaskResult(o.success, o.error, Len(h) + 1)

\* ----------------------------------------------------------------- history
\* detected: the primitives that returned CAPTCHA_DETECTED to run();
\* unpaused: a detection that no WAIT_FOR_CAPTCHA_COMPLETION call followed yet;
\* waits: number of WAIT_FOR_CAPTCHA_COMPLETION calls; captchaStep: number of
\* Step Records when the wait began; cleared: the page became free of the
\* challenge (no challenge, no indicator in its url) before the deadline of
\* the wait and has stayed so; raised: run() ended in its except branch;
\* executed: the strategies EXECUTE_FALLBACK_STRATEGY was called with;
\* closeRaised: the handle whose close() raised in cleanup, or "none"
NoHist == [detected |-> {}, unpaused |-> FALSE, waits |-> 0, captchaStep |-> 0,
           cleared |-> FALSE, raised |-> FALSE, executed |-> <<>>, closeRaised |-> "none"]

PageClear(p) == ~p.challenge /\ ~UrlHasIndicator(p.url)

Detect(h, o, who) ==
    IF o.error = CAPTCHA
    THEN [h EXCEPT !.detected = @ \cup {who}, !.unpaused = TRUE]
    ELSE h
Shown(h, p) == IF PageClear(p) THEN h ELSE [h EXCEPT !.cleared = FALSE]
Paused(h, n) == [h EXCEPT !.unpaused = FALSE, !.waits = @ + 1, !.captchaStep = n]

\* WAIT_FOR_CAPTCHA_COMPLETION: polls made, the caller, the value returned,
\* and the two votes of the latest poll (first: detector and url; second: the
\* detector of the confirmation, or "error" when the confirmation raised)
NoWait == [elapsed |-> 0, ctx |-> "none", outcome |-> "none", first |-> "none",
           second |-> "none"]
StartWait(ctx) == [NoWait EXCEPT !.ctx = ctx]

\* ------------------------------------------------------- READ_TOP_RESULTS
\* An href is a sequence of pieces of text; a test on a string is a test on
\* its pieces.  READ_TOP_RESULTS exists in two variants: the one with the
\* selector lists and the sweep over a[href] ("sweeping"), and the one that
\* prefixes every relative link ("prefixing").
Schemes == {"http:", "https:"}
StartsWithHttp(s) == s # <<>> /\ Head(s) \in Schemes
StartsWithSlash(s) == s # <<>> /\ Head(s) \in {"/", "//"}
StartsWithSlashes(s) == s # <<>> /\ Head(s) = "//"
Holds(s, piece) == \E i \in DOMAIN s : s[i] = piece
HoldsHttp(s) == \E i \in DOMAIN s : s[i] \in Schemes

Engines == {"duckduckgo", "google", "bing"}
HostOf(e) ==
    CASE e = "duckduckgo" -> "duckduckgo.com"
      [] e = "google" -> "www.google.com"
      [] e = "bing" -> "www.bing.com"
\* scheme and host of the results page, and its url
BaseUrl(e) == <<"https:", "//", HostOf(e)>>
CurrentUrl(e) == BaseUrl(e) \o <<"/", "?q=terms">>

Absolute == <<"https:", "//", "site.example", "/", "page">>
ProtocolRelative == <<"//", "site.example", "/", "page">>
RootRelative == <<"/", "page">>
NavRelative == <<"/", "settings">>
Fragment == <<"#", "top">>
Script == <<"javascript:", "open('", "https:", "//", "site.example", "')">>
Redirect == <<"//", "duckduckgo.com", "/", "l/?", "uddg=">> \o Absolute
\* the attribute is missing or empty
NoLink == <<>>
Hrefs == {Absolute, ProtocolRelative, RootRelative, NavRelative, Fragment, Script,
          Redirect, NoLink}

\* parse_qs(urlparse(link).query)['uddg'][0]
RECURSIVE Uddg(_)
Uddg(s) == IF s = <<>> THEN <<>> ELSE IF Head(s) = "uddg=" THEN Tail(s) ELSE Uddg(Tail(s))

\* the sweeping variant, selector path: the Result Entries (none or one) an
\* element with this link gives
Unredirected(link, e) ==
    IF e = "duckduckgo" /\ Holds(link, "uddg=") THEN Uddg(link) ELSE link
Rooted(link, e) ==
    IF StartsWithSlash(link) /\ e \in {"google", "bing"} THEN BaseUrl(e) \o link ELSE link
SelectorEntry(href, e) ==
    LET link == Rooted(Unredirected(href, e), e) IN
    IF href = NoLink THEN <<>>
    ELSE IF ~StartsWithHttp(link) /\ ~StartsWithSlashes(link) THEN <<>>
    ELSE IF StartsWithSlashes(link) THEN << <<"https:">> \o link >>
    ELSE IF link = NoLink THEN <<>>
    ELSE <<link>>

\* the sweeping variant, the sweep over a[href] when the selectors gave no
\* entry: the href is kept as it is written
NavWords == {"search", "images", "maps", "settings", "preferences"}
IsNavLink(s) == \E i \in DOMAIN s : i > 1 /\ s[i - 1] = "/" /\ s[i] \in NavWords
SweepEntry(href) ==
    IF href # NoLink /\ (HoldsHttp(href) \/ StartsWithSlash(href)) /\ ~IsNavLink(href)
    THEN <<href>>
    ELSE <<>>

\* the prefixing variant: a link that does not start with http gets the
\* scheme and host of the page, or the page's url
PrefixEntry(href, e) ==
    IF href = NoLink THEN <<>>
    ELSE IF StartsWithHttp(href) THEN <<href>>
    ELSE IF StartsWithSlash(href) THEN << BaseUrl(e) \o href >>
    ELSE << CurrentUrl(e) \o <<"/">> \o href >>

\* the requests of a threaded server, when two are served at once; none is
\* being served
Requests == {1, 2}
NoRequests ==
    [agents |-> <<>>, launched |-> 0,
     req |-> [r \in Requests |-> [pc |-> "none", agent |-> 0, n |-> 0, steps |-> <<>>]]]

\* READ_TOP_RESULTS is not running
IdleReader ==
    [variant |-> "none", engine |-> "none", matched |-> FALSE, hrefs |-> <<>>,
     phase |-> "idle", i |-> 0, results |-> <<>>]
\* the pages READ_TOP_RESULTS may be asked to read: the engine that served
\* the page, whether the selectors match its links, and the links
ReaderInputs ==
    {[variant |-> v, engine |-> e, matched |-> m, hrefs |-> hs,
      phase |-> "selectors", i |-> 1, results |-> <<>>]
       : v \in {"sweeping", "prefixing"}, e \in Engines, m \in BOOLEAN,
         hs \in UNION {[1..n -> Hrefs] : n \in 0..MaxResults}}

\* ----------------------------------------------------------------- Init
Queries ==
    \* str: the JSON query is a string; site: it names a website of the domain
    \* map next to a navigation keyword; url: it holds a URL and no such name;
    \* insite: it names a website and holds search terms longer than 3
    \* characters; wiki: it names wikipedia; blank: it is made of white space
    {[str |-> FALSE, site |-> FALSE, url |-> FALSE, insite |-> FALSE, wiki |-> FALSE, blank |-> FALSE],
     [str |-> TRUE, site |-> FALSE, url |-> FALSE, insite |-> FALSE, wiki |-> FALSE, blank |-> TRUE],
     [str |-> TRUE, site |-> FALSE, url |-> FALSE, insite |-> FALSE, wiki |-> FALSE, blank |-> FALSE],
     [str |-> TRUE, site |-> FALSE, url |-> TRUE, insite |-> FALSE, wiki |-> FALSE, blank |-> FALSE],
     [str |-> TRUE, site |-> TRUE, url |-> FALSE, insite |-> FALSE, wiki |-> FALSE, blank |-> FALSE],
     [str |-> TRUE, site |-> TRUE, url |-> FALSE, insite |-> TRUE, wiki |-> FALSE, blank |-> FALSE],
     [str |-> TRUE, site |-> TRUE, url |-> FALSE, insite |-> TRUE, wiki |-> TRUE, blank |-> FALSE]}

\* ActionPlan: the action and its target
ActionPlan(a, t) == [action |-> a, target |-> t]
NoPlan == ActionPlan("none", PyNone)
\* the text of a query that holds words, as a target
QueryText == "<query>"
\* white space, and a URL with white space around it
BlankText == "   "
PaddedUrl == "  https://www.wikipedia.org/  "
\* str.strip()
Strip(t) ==
    CASE t = BlankText -> ""
      [] t = PaddedUrl -> SiteUrl
      [] OTHER -> t
\* the query after _correct_website_typos, lines 776-780: its words joined by
\* single spaces, which of a blank query leaves ""
TextOf(q) == IF q.blank THEN "" ELSE QueryText
\* the URL a query that holds one gives as target
QueryUrl == "https://example.org/"
\* what re.findall(url_pattern, query)[0] can be, in pieces: a URL with its
\* scheme, a www name, a bare domain name, a domain name that begins with the
\* letters http
FoundUrls == {<<"https:", "//", "example.org", "/">>, <<"http:", "//", "example.org", "/">>,
              <<"www.", "example.org", "/">>, <<"example.org", "/">>, <<"httpbin", ".org">>}
\* the URL the query of the model holds
FoundUrl == <<"example.org", "/">>
\* url.startswith('http')
StartsHttp(u) == u # <<>> /\ Head(u) \in {"https:", "http:", "httpbin"}
\* a planner that takes the URL as it is written (a variant the property
\* about deterministic plans C39 must reject)
AsWritten(u) == u
\* lines 949-951: a URL that does not start with http gets https:// in front
WithScheme(u) == IF StartsHttp(u) THEN u ELSE <<"https:", "//">> \o u
\* the pieces of a URL as one string
UrlText(u) == IF u = <<"https:", "//", "example.org", "/">> THEN QueryUrl ELSE "example.org/"

\* what generate_content_with_Structured_schema does for REASON_AND_DECIDE:
\* there is no llm_service, the call raises, the response lacks action or
\* target, or it answers with an action and a target of its choosing
OracleActions == Actions \cup {"SEARCH_GOOGLE", "CLICK"}
OracleTargets == {SiteUrl, QueryText, "", BlankText, PaddedUrl}
OraclePlans ==
    {[kind |-> k, action |-> "none", target |-> ""] : k \in {"absent", "raises", "unusable"}}
    \cup {[kind |-> "answers", action |-> a, target |-> t]
             : a \in OracleActions, t \in OracleTargets}

\* the llm_service of the agent: None, a service whose every call raises or
\* returns an object without the fields asked for, or a service that may
\* also answer
LlmServices == {"none", "failing", "answering"}
OracleSays(svc) ==
    {o \in OraclePlans :
        CASE svc = "none" -> o.kind = "absent"
          [] svc = "failing" -> o.kind \in {"raises", "unusable"}
          [] svc = "answering" -> o.kind # "absent"}

\* lines 859-870: an action outside the allowed ones and SEARCH_GOOGLE both
\* become SEARCH_DUCKDUCKGO
ValidatedAction(a) ==
    IF a \notin Actions \cup {"SEARCH_GOOGLE"} THEN "SEARCH_DUCKDUCKGO"
    ELSE IF a = "SEARCH_GOOGLE" THEN "SEARCH_DUCKDUCKGO"
    ELSE a

\* lines 888-964, the rules used without a usable answer: a website of the
\* domain map, then a URL in the query, then the default search
DeterministicPlan(q) ==
    IF q.site THEN ActionPlan("OPEN_URL", SiteUrl)
    ELSE IF q.url THEN ActionPlan("OPEN_URL", UrlText(WithScheme(FoundUrl)))
    ELSE ActionPlan("SEARCH_DUCKDUCKGO", TextOf(q))

\* a variant that reads action and target off whatever the call gave (a
\* variant the properties about a failing oracle must reject)
TrustOracle(q, o) ==
    ActionPlan(ValidatedAction(o.action), IF o.target = "" THEN QueryText ELSE o.target)

\* REASON_AND_DECIDE(query), lines 766-964; lines 872-880: a target that is
\* empty or blank is replaced by the query, and the target is stripped
REASON_AND_DECIDE(q, o) ==
    IF o.kind = "answers"
    THEN ActionPlan(ValidatedAction(o.action),
                    Strip(IF Strip(o.target) = "" THEN TextOf(q) ELSE o.target))
    ELSE DeterministicPlan(q)

\* ------------------------------------------------- _correct_website_typos
\* Text is a sequence of characters. str.lower(), line 593
Capitals == <<"A", "B", "C", "D", "E", "F", "G", "H", "I", "J", "K", "L", "M", "N", "O", "P", "Q", "R", "S", "T", "U", "V", "W", "X", "Y", "Z">>
Smalls == <<"a", "b", "c", "d", "e", "f", "g", "h", "i", "j", "k", "l", "m", "n", "o", "p", "q", "r", "s", "t", "u", "v", "w", "x", "y", "z">>
lower(s) ==
    [i \in 1..Len(s) |->
        IF \E k \in 1..Len(Capitals) : Capitals[k] = s[i]
        THEN Smalls[CHOOSE k \in 1..Len(Capitals) : Capitals[k] = s[i]]
        ELSE s[i]]

\* str.replace(old, new), line 596: every occurrence of old, found from the
\* left and not overlapping, gives way to new, whatever stands around it; a
\* text that does not hold old (the test of line 595) is returned as it is
RECURSIVE replace(_, _, _)
replace(s, old, new) ==
    IF s = <<>> THEN <<>>
    ELSE IF Len(old) <= Len(s) /\ SubSeq(s, 1, Len(old)) = old
         THEN new \o replace(SubSeq(s, Len(old) + 1, Len(s)), old, new)
         ELSE <<Head(s)>> \o replace(Tail(s), old, new)

\* str.split(), lines 600-601: the runs of characters between white space
RECURSIVE split(_)
split(s) ==
    IF s = <<>> THEN <<>>
    ELSE IF Head(s) = " " THEN split(Tail(s))
    ELSE LET n == IF \E i \in 1..Len(s) : s[i] = " "
                  THEN (CHOOSE i \in 1..Len(s) : s[i] = " " /\ \A j \in 1..(i - 1) : s[j] # " ") - 1
                  ELSE Len(s)
         IN  <<SubSeq(s, 1, n)>> \o split(SubSeq(s, n + 1, Len(s)))

\* ' '.join(result), line 609
RECURSIVE join(_)
join(ws) ==
    IF ws = <<>> THEN <<>>
    ELSE IF Len(ws) = 1 THEN ws[1]
    ELSE ws[1] \o <<" ">> \o join(Tail(ws))

\* typo_corrections, lines 562-591, in the order of the dict
typo_corrections ==
    <<<<<<"w", "i", "k", "i", "p", "i", "d", "a">>, <<"w", "i", "k", "i", "p", "e", "d", "i", "a">>>>,
      <<<<"w", "i", "k", "i", "p", "e", "d", "a">>, <<"w", "i", "k", "i", "p", "e", "d", "i", "a">>>>,
      <<<<"w", "i", "k", "i", "p", "i", "d", "i", "a">>, <<"w", "i", "k", "i", "p", "e", "d", "i", "a">>>>,
      <<<<"w", "i", "k", "e", "p", "e", "d", "i", "a">>, <<"w", "i", "k", "i", "p", "e", "d", "i", "a">>>>,
      <<<<"w", "i", "k", "p", "e", "d", "i", "a">>, <<"w", "i", "k", "i", "p", "e", "d", "i", "a">>>>,
      <<<<"w", "k", "i", "p", "e", "d", "i", "a">>, <<"w", "i", "k", "i", "p", "e", "d", "i", "a">>>>,
      <<<<"v", "i", "s", "t">>, <<"v", "i", "s", "i", "t">>>>,
      <<<<"v", "i", "s", "t", "i">>, <<"v", "i", "s", "i", "t">>>>,
      <<<<"v", "i", "s", "t", "i", "t">>, <<"v", "i", "s", "i", "t">>>>,
      <<<<"l", "i", "n", "k", "e", "d", "n">>, <<"l", "i", "n", "k", "e", "d", "i", "n">>>>,
      <<<<"l", "i", "n", "k", "d", "i", "n">>, <<"l", "i", "n", "k", "e", "d", "i", "n">>>>,
      <<<<"y", "o", "u", "t", "u", "e">>, <<"y", "o", "u", "t", "u", "b", "e">>>>,
      <<<<"y", "o", "u", "t", "u", "b">>, <<"y", "o", "u", "t", "u", "b", "e">>>>,
      <<<<"f", "a", "c", "e", "b", "o", "k">>, <<"f", "a", "c", "e", "b", "o", "o", "k">>>>,
      <<<<"f", "a", "c", "e", "b", "o", "o", "o", "k">>, <<"f", "a", "c", "e", "b", "o", "o", "k">>>>,
      <<<<"r", "e", "d", "i", "t">>, <<"r", "e", "d", "d", "i", "t">>>>,
      <<<<"r", "e", "d", "d", "i", "t", "t">>, <<"r", "e", "d", "d", "i", "t">>>>,
      <<<<"t", "w", "i", "t", "e", "r">>, <<"t", "w", "i", "t", "t", "e", "r">>>>,
      <<<<"t", "w", "i", "t", "t", "r">>, <<"t", "w", "i", "t", "t", "e", "r">>>>,
      <<<<"i", "n", "s", "t", "g", "r", "a", "m">>, <<"i", "n", "s", "t", "a", "g", "r", "a", "m">>>>,
      <<<<"i", "n", "s", "t", "a", "g", "r", "m">>, <<"i", "n", "s", "t", "a", "g", "r", "a", "m">>>>,
      <<<<"g", "i", "t", "h", "u">>, <<"g", "i", "t", "h", "u", "b">>>>,
      <<<<"g", "i", "t", "h", "b">>, <<"g", "i", "t", "h", "u", "b">>>>,
      <<<<"s", "t", "a", "c", "k", "o", "v", "e", "r", "f", "l", "w">>, <<"s", "t", "a", "c", "k", "o", "v", "e", "r", "f", "l", "o", "w">>>>,
      <<<<"s", "t", "a", "c", "k", "o", "v", "e", "r", "f", "o", "w">>, <<"s", "t", "a", "c", "k", "o", "v", "e", "r", "f", "l", "o", "w">>>>>>

\* the loop of lines 594-597 from entry k on
RECURSIVE CorrectFrom(_, _)
CorrectFrom(s, k) ==
    IF k > Len(typo_corrections) THEN s
    ELSE CorrectFrom(replace(s, typo_corrections[k][1], typo_corrections[k][2]), k + 1)

\* BrowserAgent._correct_website_typos, lines 552-611
_correct_website_typos(q) ==
    LET corrected_query == CorrectFrom(lower(q), 1)
        words == split(q)
        corrected_words == split(corrected_query)
    IN  IF Len(words) = Len(corrected_words)
        THEN join([k \in 1..Len(words) |->
                      IF lower(words[k]) # corrected_words[k] THEN corrected_words[k]
                      ELSE words[k]])
        ELSE corrected_query

\* the words the queries given to the correction are made of: site names and
\* command words, spelled correctly and not, in lower case and not
TypoWords ==
    {<<"O", "p", "e", "n">>,
     <<"o", "p", "e", "n">>,
     <<"G", "i", "t", "H", "u", "b">>,
     <<"g", "i", "t", "h", "u", "b">>,
     <<"g", "i", "t", "h", "u">>,
     <<"G", "i", "t", "h", "b">>,
     <<"y", "o", "u", "t", "u", "b", "e">>,
     <<"Y", "o", "u", "T", "u", "b">>,
     <<"v", "i", "s", "t">>,
     <<"V", "i", "s", "i", "t">>,
     <<"w", "i", "k", "i", "p", "i", "d", "a">>,
     <<"W", "i", "k", "i", "p", "e", "d", "i", "a">>,
     <<"r", "e", "d", "i", "t">>,
     <<"n", "e", "w", "s">>}
MaxWords == 2
\* the queries: up to MaxWords words with one space between them, and two
\* words with two spaces between them
TypoQueries ==
    UNION {{join(ws) : ws \in [1..n -> TypoWords]} : n \in 1..MaxWords}
    \cup {a \o <<" ", " ">> \o b : a \in {<<"O", "p", "e", "n">>, <<"v", "i", "s", "t">>}, b \in TypoWords}
\* no correction asked for
IdleCorrector == [phase |-> "idle", query |-> <<>>, once |-> <<>>, twice |-> <<>>]

\* the agent and the use case as constructed, whatever the query
AgentInit ==
    /\ handles = NoHandles
    /\ captcha_detected = FALSE
    /\ captcha_url = PyNone
    /\ captcha_urls = <<>>
    /\ recorded_steps = <<>>
    /\ heap = <<>>
    /\ pages = [i \in {MainPage} \cup Tabs |-> IF i = MainPage THEN BlankPage ELSE NoPage]
    /\ cur = MainPage
    /\ pc = "start"
    /\ plan = NoPlan
    /\ result = NoResult
    /\ read_result = NoResult
    /\ fallbacks = <<>>
    /\ idx = 0
    /\ nresults = 0
    /\ details = 0
    /\ wait = NoWait
    /\ final = NoResult
    /\ outcome = [kind |-> "none", overall_success |-> FALSE, steps |-> <<>>]
    /\ force_close = "none"
    /\ hist = NoHist

DefaultQuery == [str |-> TRUE, site |-> FALSE, url |-> FALSE, insite |-> FALSE, wiki |-> FALSE, blank |-> FALSE]

Init ==
    /\ AgentInit
    /\ query \in Queries
    /\ llm_service \in LlmServices
    /\ reader = IdleReader
    /\ corrector = IdleCorrector
    /\ workstreams = "none"
    /\ requests = NoRequests

\* run() returns r
Return(r) ==
    /\ final' = r
    /\ pc' = "returned"

\* ------------------------------------------------------------------ run()
\* REASON_AND_DECIDE and the planning step.  _correct_website_typos calls
\* query.lower(): a query that is no string raises, and run() returns from
\* its except branch with nothing recorded.
BranchOf(a) ==
    CASE a = "OPEN_URL" -> "open"
      [] a = "SEARCH_DUCKDUCKGO" -> "search"
      [] a = "READ_PAGE" -> "read_page"
      [] a = "FIX_ISSUE" -> "fix"

RunPlan ==
    /\ pc = "start"
    /\ \/ /\ query.str
          /\ \E o \in OracleSays(llm_service) :
                LET p == REASON_AND_DECIDE(query, o) IN
                /\ plan' = p
                /\ pc' = BranchOf(p.action)
          /\ heap' = Append(heap, Data(Absent, Absent, {"plan"}))
          /\ recorded_steps' = RECORD_STEP(recorded_steps, "Reasoned about query",
                                           TaskResult(TRUE, Null, Len(heap) + 1))
          /\ UNCHANGED <<final, hist>>
       \/ /\ ~query.str
          /\ heap' = Append(heap, EmptyData)
          /\ Return(TaskResult(FALSE, OtherErr, Len(heap) + 1))
          /\ hist' = [hist EXCEPT !.raised = TRUE]
          /\ UNCHANGED <<plan, recorded_steps>>
    /\ UNCHANGED <<handles, captcha_detected, captcha_url, captcha_urls, browser, query,
                   llm_service, reader, corrector, workstreams, requests, result, read_result, fallbacks, idx, nresults,
                   details, wait, usecase>>

\* a test that never sends run() into the wait (a variant the pause property
\* C9 must reject)
NeverReported(r) == FALSE

\* a test that sends run() into the wait after any failure (a variant the
\* property about the sentinel C38 must reject)
AnyFailureReported(r) == ~r.success

\* the test that sends run() into WAIT_FOR_CAPTCHA_COMPLETION, lines 2101, 2256
\* and 2461
CaptchaReported(r) == r.error = CAPTCHA

\* OPEN_URL branch, lines 2096-2126 and 2275-2276: open, record, then wait for
\* the CAPTCHA, go on to the page read, or return the failed result
RunOpenUrl ==
    /\ pc = "open"
    /\ \E o \in OPEN_URL(handles, pages[cur], plan.target) :
          LET r == ResultOf(heap, o) IN
          /\ heap' = Append(heap, o.data)
          /\ handles' = HandlesAfter(handles, o)
          /\ captcha_detected' = FlagAfter(captcha_detected, o)
          /\ captcha_url' = UrlAfter(captcha_url, o)
          /\ pages' = [pages EXCEPT ![cur] = o.page]
          /\ result' = r
          /\ recorded_steps' = RECORD_STEP(recorded_steps, "Opened URL", r)
          /\ IF CaptchaReported(r)
             THEN /\ pc' = "wait"
                  /\ wait' = StartWait("open")
                  /\ hist' = Paused(Detect(Shown(hist, o.page), o, "OPEN_URL"),
                                    Len(recorded_steps) + 1)
                  /\ UNCHANGED final
             ELSE /\ hist' = Detect(Shown(hist, o.page), o, "OPEN_URL")
                  /\ UNCHANGED wait
                  /\ IF ~FlagAfter(captcha_detected, o) /\ r.success
                     THEN pc' = "after_open" /\ UNCHANGED final
                     ELSE Return(r)
    /\ UNCHANGED <<captcha_urls, cur, query, llm_service, reader, corrector, workstreams, requests, plan, read_result, fallbacks, idx, nresults,
                   details, usecase>>

\* applying a primitive's outcome to the session and the current page
Apply(o) ==
    /\ heap' = Append(heap, o.data)
    /\ handles' = HandlesAfter(handles, o)
    /\ captcha_detected' = FlagAfter(captcha_detected, o)
    /\ captcha_url' = UrlAfter(captcha_url, o)
    /\ pages' = [pages EXCEPT ![cur] = o.page]

\* ------------------------------------------- WAIT_FOR_CAPTCHA_COMPLETION
\* The page and the user: while run() is suspended, the page the session looks
\* at can start or stop showing a challenge and move between the challenge
\* url and the site's url.
Sibling(u) ==
    CASE u = SiteUrl -> SiteChallenge
      [] u = SiteChallenge -> SiteUrl
      [] OTHER -> u

Waiting == pc \in {"wait", "wait_confirm"}

PageChanges ==
    /\ pc \in {"wait", "wait_confirm", "after_wait", "after_open", "insite_read",
               "read_open"}
    /\ handles.page = "open"
    /\ \E c \in BOOLEAN, u \in {pages[cur].url, Sibling(pages[cur].url)} :
          /\ Page(c, u) # pages[cur]
          /\ pages' = [pages EXCEPT ![cur] = Page(c, u)]
          /\ hist' = IF PageClear(Page(c, u))
                     THEN [hist EXCEPT !.cleared =
                              @ \/ (Waiting /\ wait.elapsed < MaxPolls)]
                     ELSE [hist EXCEPT !.cleared = FALSE]
    /\ UNCHANGED <<session, cur, pc, query, llm_service, reader, corrector, workstreams, requests, locals, wait, final, usecase>>

\* a first vote that never finds the page clear (a variant the resolution
\* property C8 must reject)
NeverClear(p) == FALSE

\* the first vote of a poll: no challenge on the page and no indicator in its url
FirstVoteClear(p) == ~p.challenge /\ ~UrlHasIndicator(p.url)

\* a detector whose every vote is clear (a variant the two-vote property C20
\* must reject)
AlwaysClearVote(found) == "clear"

\* what a run of the detector says
Vote(found) == IF found THEN "challenge" ELSE "clear"

\* loop head, lines 240-244: the deadline has passed, return False
WaitTimeout ==
    /\ pc = "wait"
    /\ wait.elapsed >= MaxPolls
    /\ wait' = [wait EXCEPT !.outcome = "timeout"]
    /\ pc' = "after_wait"
    /\ UNCHANGED <<session, browser, query, llm_service, reader, corrector, workstreams, requests, locals, final, usecase, hist>>

\* one poll, lines 246-264: sleep check_interval, read the url, run the detector
WaitPoll ==
    /\ pc = "wait"
    /\ wait.elapsed < MaxPolls
    /\ wait' = [wait EXCEPT !.elapsed = @ + 1,
                            !.first = Vote(~FirstVoteClear(pages[cur])),
                            !.second = "none"]
    /\ pc' = IF FirstVoteClear(pages[cur]) THEN "wait_confirm" ELSE "wait"
    /\ UNCHANGED <<session, browser, query, llm_service, reader, corrector, workstreams, requests, locals, final, usecase, hist>>

\* a confirmation that an error does not end (a variant the property about
\* poll errors C22 must reject)
ClearEnds(v) == v = "clear"

\* lines 276-284: "if not final_check" and the except branch both return True
ConfirmEnds(v) == v \in {"error", "clear"}

\* the confirmation, lines 268-284: sleep, fetch the title, run the detector
\* again; a clear second vote, or an error fetching the title, ends the wait
\* with True and resets captcha_detected
WaitConfirm ==
    /\ pc = "wait_confirm"
    /\ \E titleRaises \in BOOLEAN :
          LET v == IF titleRaises THEN "error" ELSE Vote(DETECT_CAPTCHA(pages, cur)) IN
          IF ConfirmEnds(v)
          THEN /\ captcha_detected' = FALSE
               /\ wait' = [wait EXCEPT !.outcome = "resolved", !.second = v]
               /\ pc' = "after_wait"
          ELSE /\ pc' = "wait"
               /\ wait' = [wait EXCEPT !.second = v]
               /\ UNCHANGED captcha_detected
    /\ UNCHANGED <<handles, captcha_url, captcha_urls, recorded_steps, heap, browser,
                   query, llm_service, reader, corrector, workstreams, requests, locals, final, usecase, hist>>

\* a caller that goes on whatever the wait returned (a variant the timeout
\* property C21 must reject)
AlwaysResolved(w) == TRUE

\* "if captcha_resolved:", lines 2108, 2262 and 2467
Resolved(w) == w.outcome = "resolved"

\* OPEN_URL branch after the wait, lines 2108-2123
AfterWaitOpen ==
    /\ pc = "after_wait"
    /\ wait.ctx = "open"
    /\ IF Resolved(wait)
       THEN \E o \in READ_PAGE(handles, pages[cur], PyNone) :
               LET r == ResultOf(heap, o) IN
               /\ Apply(o)
               /\ read_result' = r
               /\ recorded_steps' = RECORD_STEP(recorded_steps, "Read page content after CAPTCHA", r)
               /\ hist' = Detect(Shown(hist, o.page), o, "READ_PAGE after OPEN_URL wait")
               /\ Return(r)
       ELSE /\ Return(result)
            /\ UNCHANGED <<session, pages, read_result, hist>>
    /\ UNCHANGED <<captcha_urls, cur, query, llm_service, reader, corrector, workstreams, requests, plan, result, fallbacks, idx, nresults,
                   details, wait, usecase>>

\* the retry after a wait that followed a page read, lines 2262-2271 (after
\* OPEN_URL) and 2467-2476 (READ_PAGE plan): the second read is recorded and
\* returned unless it is a CAPTCHA again; then it is returned unrecorded
AfterWaitRead ==
    /\ pc = "after_wait"
    /\ wait.ctx \in {"read_open", "read_page"}
    /\ LET first == IF wait.ctx = "read_open" THEN read_result ELSE result
           url == IF wait.ctx = "read_open" THEN PyNone ELSE SiteUrl
       IN
       IF Resolved(wait)
       THEN \E o \in READ_PAGE(handles, pages[cur], url) :
               LET r == ResultOf(heap, o) IN
               /\ Apply(o)
               /\ IF wait.ctx = "read_open"
                  THEN read_result' = r /\ UNCHANGED result
                  ELSE result' = r /\ UNCHANGED read_result
               /\ recorded_steps' = IF r.error # CAPTCHA
                                    THEN RECORD_STEP(recorded_steps,
                                                     "Read page after CAPTCHA resolution", r)
                                    ELSE recorded_steps
               /\ hist' = Detect(Shown(hist, o.page), o, "READ_PAGE retry")
               /\ Return(r)
       ELSE /\ Return(first)
            /\ UNCHANGED <<session, pages, result, read_result, hist>>
    /\ UNCHANGED <<captcha_urls, cur, query, llm_service, reader, corrector, workstreams, requests, plan, fallbacks, idx, nresults, details,
                   wait, usecase>>

\* adding keys to a data dict in place: result.data["k"] = ...
SetKeys(h, d, ks) == [h EXCEPT ![d].keys = @ \cup ks]

\* In-site search, lines 2145-2224, taken when the query names a website and
\* holds search terms.  No search box, or an exception while searching, falls
\* through to the plain page read.  With the box found the search is submitted
\* and a page loads: a challenge on it is returned at once, unrecorded.
RunInSite ==
    /\ pc = "after_open"
    /\ query.insite
    /\ \/ /\ pc' = "read_open"
          /\ UNCHANGED <<session, pages, final, hist>>
       \/ \E p \in SitePages :
             /\ pages' = [pages EXCEPT ![cur] = p]
             /\ IF p.challenge
                THEN /\ captcha_detected' = TRUE
                     /\ captcha_url' = p.url
                     /\ heap' = Append(heap, Data("title", p.url, {}))
                     /\ hist' = [Shown(hist, p) EXCEPT !.detected = @ \cup {"in-site search"},
                                                       !.unpaused = TRUE]
                     /\ Return(TaskResult(FALSE, CAPTCHA, Len(heap) + 1))
                ELSE /\ hist' = Shown(hist, p)
                     /\ pc' = "insite_read"
                     /\ UNCHANGED <<captcha_detected, captcha_url, heap, final>>
             /\ UNCHANGED <<handles, captcha_urls, recorded_steps>>
    /\ UNCHANGED <<cur, query, llm_service, reader, corrector, workstreams, requests, locals, wait, usecase>>

\* the read of the in-site results, lines 2226-2249: a successful read is
\* recorded and returned, and for wikipedia the recorded result then gets
\* detailed_results and extraction_summary; any other read (a failure, a
\* CAPTCHA) is dropped and run() goes on to the plain page read
RunInSiteRead ==
    /\ pc = "insite_read"
    /\ \E o \in READ_PAGE(handles, pages[cur], PyNone), n \in 0..MaxResults :
          LET r == ResultOf(heap, o)
              h1 == Append(heap, o.data)
          IN
          /\ handles' = HandlesAfter(handles, o)
          /\ captcha_detected' = FlagAfter(captcha_detected, o)
          /\ captcha_url' = UrlAfter(captcha_url, o)
          /\ pages' = [pages EXCEPT ![cur] = o.page]
          /\ read_result' = r
          /\ hist' = Detect(Shown(hist, o.page), o, "in-site READ_PAGE")
          /\ IF r.success
             THEN /\ recorded_steps' = RECORD_STEP(recorded_steps,
                                                   "Searched within website", r)
                  /\ heap' = IF query.wiki /\ n > 0
                             THEN SetKeys(h1, r.data,
                                          {"detailed_results", "extraction_summary"})
                             ELSE h1
                  /\ Return(r)
             ELSE /\ heap' = h1
                  /\ pc' = "read_open"
                  /\ UNCHANGED <<recorded_steps, final>>
    /\ UNCHANGED <<captcha_urls, cur, query, llm_service, reader, corrector, workstreams, requests, plan, result, fallbacks, idx, nresults,
                   details, wait, usecase>>

\* the page read after a successful open, lines 2251-2274
RunReadOpen ==
    /\ \/ pc = "read_open"
       \/ pc = "after_open" /\ ~query.insite
    /\ \E o \in READ_PAGE(handles, pages[cur], PyNone) :
          LET r == ResultOf(heap, o) IN
          /\ Apply(o)
          /\ read_result' = r
          /\ recorded_steps' = RECORD_STEP(recorded_steps, "Read page content", r)
          /\ IF CaptchaReported(r)
             THEN /\ pc' = "wait"
                  /\ wait' = StartWait("read_open")
                  /\ hist' = Paused(Detect(Shown(hist, o.page), o, "READ_PAGE"),
                                    Len(recorded_steps) + 1)
                  /\ UNCHANGED final
             ELSE /\ hist' = Detect(Shown(hist, o.page), o, "READ_PAGE")
                  /\ Return(r)
                  /\ UNCHANGED wait
    /\ UNCHANGED <<captcha_urls, cur, query, llm_service, reader, corrector, workstreams, requests, plan, result, fallbacks, idx, nresults,
                   details, usecase>>

\* READ_PAGE plan, lines 2456-2476 and 2505-2507
RunReadPage ==
    /\ pc = "read_page"
    /\ \E o \in READ_PAGE(handles, pages[cur], plan.target) :
          LET r == ResultOf(heap, o) IN
          /\ Apply(o)
          /\ result' = r
          /\ recorded_steps' = RECORD_STEP(recorded_steps, "Read page", r)
          /\ IF CaptchaReported(r)
             THEN /\ pc' = "wait"
                  /\ wait' = StartWait("read_page")
                  /\ hist' = Paused(Detect(Shown(hist, o.page), o, "READ_PAGE"),
                                    Len(recorded_steps) + 1)
                  /\ UNCHANGED final
             ELSE /\ hist' = Detect(Shown(hist, o.page), o, "READ_PAGE")
                  /\ Return(r)
                  /\ UNCHANGED wait
    /\ UNCHANGED <<captcha_urls, cur, query, llm_service, reader, corrector, workstreams, requests, plan, read_result, fallbacks, idx, nresults,
                   details, usecase>>

\* str(e) of the exception generate_content re-raises
OracleErr == "oracle error"

\* FIX_ISSUE: launches the browser; with an llm_service it calls
\* generate_content, which answers or raises (open_ai_llm.py 105-121), and
\* without one it builds the static record; data holds issue, solution or
\* suggestion and the url of the page, no title; the except branch gives
\* success=False with data {"issue"}
FIX_ISSUE(h, p, svc) ==
    LET url == IF initialize_browser(h).page = "open" THEN p.url ELSE PyNone IN
    InitFailure(h, Data(Absent, Absent, {"issue"}), p)
    \cup IF svc = "none"
         THEN {Outcome(TRUE, Null, Data(Absent, url, {"issue", "suggestion"}), FALSE, p, "ok")}
         ELSE {Outcome(TRUE, Null, Data(Absent, url, {"issue", "solution"}), FALSE, p, "ok"),
               Outcome(FALSE, OracleErr, Data(Absent, Absent, {"issue"}), FALSE, p, "ok")}

\* FIX_ISSUE plan, lines 2478-2507: the CAPTCHA pre-check runs only when the
\* session already has a page
RunFixIssue ==
    /\ pc = "fix"
    /\ IF handles.page = "open" /\ DETECT_CAPTCHA(pages, cur)
       THEN LET r == TaskResult(FALSE, CAPTCHA, Len(heap) + 1) IN
            /\ captcha_detected' = TRUE
            /\ captcha_url' = pages[cur].url
            /\ heap' = Append(heap, Data("title", pages[cur].url, {}))
            /\ result' = r
            /\ recorded_steps' = RECORD_STEP(recorded_steps,
                                             "CAPTCHA detected while fixing issue", r)
            /\ hist' = [hist EXCEPT !.detected = @ \cup {"FIX_ISSUE pre-check"},
                                    !.unpaused = TRUE]
            /\ Return(r)
            /\ UNCHANGED <<handles, pages>>
       ELSE \E o \in FIX_ISSUE(handles, pages[cur], llm_service) :
               LET r == ResultOf(heap, o) IN
               /\ Apply(o)
               /\ result' = r
               /\ recorded_steps' = RECORD_STEP(recorded_steps, "Attempted to fix", r)
               /\ Return(r)
               /\ UNCHANGED hist
    /\ UNCHANGED <<captcha_urls, cur, query, llm_service, reader, corrector, workstreams, requests, plan, read_result, fallbacks, idx, nresults,
                   details, wait, usecase>>

\* ------------------------------------------------------------ search branch
\* SEARCH_DUCKDUCKGO: an exception, no search box on the home page, a challenge
\* on the home page or on the results page, or the results
SEARCH_DUCKDUCKGO(h, p) ==
    InitFailure(h, EmptyData, p)
    \cup {Outcome(FALSE, OtherErr, EmptyData, FALSE, p, "ok"),
          Outcome(FALSE, OtherErr, EmptyData, FALSE, Page(FALSE, DdgHome), "ok"),
          Loaded(Page(TRUE, DdgHome), {}),
          Loaded(Page(TRUE, DdgResults), {}),
          Loaded(Page(FALSE, DdgResults), {})}

\* READ_TOP_RESULTS: "No page", an exception (both with the default data {}),
\* or the entries of the page with its title and url; it never navigates and
\* never runs the detector
READ_TOP_RESULTS(h, p) ==
    IF h.page # "open"
    THEN {Outcome(FALSE, OtherErr, EmptyData, FALSE, p, "ok")}
    ELSE {Outcome(FALSE, OtherErr, EmptyData, FALSE, p, "ok"),
          Outcome(TRUE, Null, Data("title", p.url, {}), FALSE, p, "ok")}

\* EXTRACT_DETAILED_CONTENT(url): navigates the current page; a challenge gives
\* CAPTCHA_DETECTED with data {"url": url} and leaves captcha_detected alone
EXTRACT_DETAILED_CONTENT(p, url) ==
    {Outcome(FALSE, OtherErr, Data(Absent, url, {}), FALSE, p, "ok"),
     Outcome(FALSE, OtherErr, Data(Absent, url, {}), FALSE, Page(FALSE, url), "ok"),
     Outcome(FALSE, CAPTCHA, Data(Absent, url, {}), FALSE, Page(TRUE, url), "ok"),
     Outcome(TRUE, Null, Data("title", url, {}), FALSE, Page(FALSE, url), "ok")}

\* a Fallback Strategy: its type, its engine and its site ("" when absent)
Fallback(t, e) == [type |-> t, engine |-> e, site |-> ""]
SiteFallback(s) == [type |-> "site_search", engine |-> "", site |-> s]

\* the site a query may name, and a site it does not name
NamedSite == "github.com"
OtherSite == "bbc.com"
\* the sites whose names appear in the query
SitesNamed(q) == IF q.site /\ ~q.wiki THEN {NamedSite} ELSE {}

\* str.lower() on the engine names the oracle may answer with
Lower(e) == IF e = "DuckDuckGo" THEN "duckduckgo" ELSE e

\* the entries an oracle response may hold: an engine in either letter case,
\* another engine or none, a site named in the query, another site or none,
\* and a type outside the three known ones
OracleFallbacks ==
    {Fallback("search_engine", e) : e \in {"duckduckgo", "DuckDuckGo", "bing", ""}}
    \cup {SiteFallback(s) : s \in {NamedSite, OtherSite, ""}}
    \cup {Fallback("cache", ""), Fallback("blog_search", "")}

\* validation of one entry, lines 381-405: <<>> when it is skipped; the engine
\* is compared in lower case and replaced only when the comparison fails
ValidateFallback(fb) ==
    IF fb.type \notin FallbackTypes
    THEN <<>>
    ELSE IF fb.type = "search_engine"
         THEN <<[fb EXCEPT !.engine = IF Lower(@) \notin {"duckduckgo"}
                                      THEN "duckduckgo" ELSE @]>>
         ELSE IF fb.type = "site_search" /\ fb.site = ""
              THEN <<>>
              ELSE <<fb>>

\* the validated list of an oracle response, lines 367-407
RECURSIVE ValidatedFallbacks(_)
ValidatedFallbacks(raw) ==
    IF raw = <<>> THEN <<>>
    ELSE ValidateFallback(Head(raw)) \o ValidatedFallbacks(Tail(raw))

\* the default list, lines 418-459: the DuckDuckGo retry, then a site_search
\* for every site the query names
DefaultFallbacks(q) ==
    <<Fallback("search_engine", "duckduckgo")>>
    \o (IF NamedSite \in SitesNamed(q) THEN <<SiteFallback(NamedSite)>> ELSE <<>>)

\* REASON_AND_CHOOSE_FALLBACK: the validated list of the oracle's response
\* when it is not empty, else (no oracle, an oracle that raises, an unusable
\* or empty response) the default list
REASON_AND_CHOOSE_FALLBACK(q, svc) ==
    {DefaultFallbacks(q)}
    \cup IF svc # "answering" THEN {}
         ELSE {IF ValidatedFallbacks(raw) # <<>> THEN ValidatedFallbacks(raw)
               ELSE DefaultFallbacks(q)
               : raw \in UNION {[1..n -> OracleFallbacks] : n \in 0..MaxFallbacks}}

\* the enrichment a fallback adds to a successful search before it returns:
\* nothing when READ_TOP_RESULTS failed, else the keys ks
Enriched(o, ks) ==
    IF o.success THEN {o, [o EXCEPT !.data.keys = @ \cup ks]} ELSE {o}

\* a detection by an engine tried before the one whose result is returned
WithCaptchaAt(o, u) == [o EXCEPT !.flag = TRUE, !.curl = u]

\* SITE_SPECIFIC_SEARCH: SEARCH_GOOGLE, and SEARCH_BING when Google answered
\* with a CAPTCHA
SITE_SPECIFIC_SEARCH(p) ==
    LET engine(home, results) ==
            {Outcome(FALSE, OtherErr, EmptyData, FALSE, p, "ok"),
             Loaded(Page(TRUE, home), {}),
             Loaded(Page(FALSE, results), {})}
        google == engine(GoogleSorry, BingResults)
        bing == engine(BingHome, BingResults)
    IN  {o \in google : o.error # CAPTCHA}
        \cup {IF o.flag THEN o ELSE WithCaptchaAt(o, GoogleSorry) : o \in bing}

\* EXECUTE_FALLBACK_STRATEGY, lines 461-550
EXECUTE_FALLBACK_STRATEGY(fb, h, p) ==
    CASE fb.type = "search_engine" /\ fb.engine = "duckduckgo" ->
            UNION {Enriched(o, {"top_results", "detailed_results"})
                   : o \in SEARCH_DUCKDUCKGO(h, p)}
      [] fb.type = "site_search" ->
            UNION {Enriched(o, {"top_results", "detailed_results"})
                   : o \in SITE_SPECIFIC_SEARCH(p)}
      [] fb.type = "cache" ->
            UNION {Enriched(o, {"top_results"}) : o \in SEARCH_DUCKDUCKGO(h, p)}
      [] OTHER ->
            {Outcome(FALSE, OtherErr, EmptyData, FALSE, p, "ok")}

\* primary search, lines 2284-2294 and 2398-2399, 2453-2454
RunSearch ==
    /\ pc = "search"
    /\ \E o \in SEARCH_DUCKDUCKGO(handles, pages[cur]) :
          LET r == ResultOf(heap, o) IN
          /\ Apply(o)
          /\ result' = r
          /\ recorded_steps' = RECORD_STEP(recorded_steps, "Searched DuckDuckGo", r)
          /\ hist' = Detect(hist, o, "SEARCH_DUCKDUCKGO")
          /\ IF r.error = CAPTCHA
             THEN /\ \E fl \in REASON_AND_CHOOSE_FALLBACK(query, llm_service) : fallbacks' = fl
                  /\ idx' = 1
                  /\ pc' = "fallback"
                  /\ UNCHANGED final
             ELSE /\ UNCHANGED <<fallbacks, idx>>
                  /\ IF ~FlagAfter(captcha_detected, o) /\ r.success
                     THEN pc' = "read_top" /\ UNCHANGED final
                     ELSE Return(r)
    /\ UNCHANGED <<captcha_urls, cur, query, llm_service, reader, corrector, workstreams, requests, plan, read_result, nresults, details, wait,
                   usecase>>

\* f"Fallback attempt {i}: ...", line 2321
FallbackDesc(i) == "Fallback attempt " \o ToString(i)
IsFallbackStep(st) == \E i \in 1..(MaxFallbacks + 1) : st.step = FallbackDesc(i)

\* a loop that stops at no result (a variant the ordering property C23 must
\* reject)
NeverSucceeded(r) == FALSE

\* line 2324: the fallback succeeded
FallbackSucceeded(r) == r.success /\ r.error # CAPTCHA

\* a loop that restores self.page whatever new_tab.close() did (a variant the
\* properties that need the close failure must reject)
RestoreAlways(c, old, closed) == old

\* lines 2328-2333 and 2346-2352: self.page = old_page follows
\* new_tab.close() inside the try, and the bare except skips it
PageAfterClose(c, old, closed) == IF closed THEN old ELSE c

\* one iteration of the fallback loop, lines 2301-2352: NEW_TAB gives a tab
\* (which becomes self.page) or None, the strategy is executed and its Step
\* Record appended, and new_tab.close() closes the tab or raises; a success is
\* returned, a CAPTCHA adds its url to captcha_urls
RunFallback ==
    /\ pc = "fallback"
    /\ \E tab \in BOOLEAN, closed \in BOOLEAN :
       LET c == IF tab THEN idx ELSE cur IN
       /\ tab => handles.context = "open"
       /\ ~tab => closed
       /\ \E o \in EXECUTE_FALLBACK_STRATEGY(fallbacks[idx], handles,
                                             IF tab THEN BlankPage ELSE pages[cur]) :
          LET r == ResultOf(heap, o) IN
          /\ heap' = Append(heap, o.data)
          /\ handles' = HandlesAfter(handles, o)
          /\ captcha_detected' = FlagAfter(captcha_detected, o)
          /\ captcha_url' = UrlAfter(captcha_url, o)
          /\ pages' = [pages EXCEPT ![c] = IF tab /\ closed THEN NoPage ELSE o.page]
          /\ cur' = IF tab THEN PageAfterClose(c, cur, closed) ELSE cur
          /\ read_result' = r
          /\ recorded_steps' = RECORD_STEP(recorded_steps, FallbackDesc(idx), r)
          /\ hist' = [Detect(hist, o, "fallback") EXCEPT
                          !.executed = Append(@, fallbacks[idx])]
          /\ IF FallbackSucceeded(r)
             THEN /\ Return(r)
                  /\ UNCHANGED <<captcha_urls, idx>>
             ELSE /\ captcha_urls' = IF r.error = CAPTCHA /\ o.data.url # Absent
                                     THEN Append(captcha_urls, o.data.url)
                                     ELSE captcha_urls
                  /\ idx' = idx + 1
                  /\ pc' = IF idx = Len(fallbacks) THEN "all_blocked" ELSE "fallback"
                  /\ UNCHANGED final
    /\ UNCHANGED <<query, llm_service, reader, corrector, workstreams, requests, plan, result, fallbacks, nresults, details, wait, usecase>>

Range(f) == {f[i] : i \in DOMAIN f}
\* list(set(xs)): the elements of xs once each, in an order the hash decides
ListOfSet(xs) == {l \in [1..Cardinality(Range(xs)) -> Range(xs)] : Range(l) = Range(xs)}

\* every strategy failed, lines 2354-2396
RunAllBlocked ==
    /\ pc = "all_blocked"
    /\ LET blocked == TaskResult(FALSE, ALL_BLOCKED, Len(heap) + 1)
           urls == (IF captcha_url # PyNone THEN <<captcha_url>> ELSE <<>>) \o captcha_urls
       IN \E l \in ListOfSet(urls) :
             /\ heap' = heap
                    \o <<Data("title", IF captcha_url # PyNone THEN captcha_url
                                       ELSE MultipleUrls, {}),
                         [Data("title", IF l # <<>> THEN l[1] ELSE MultipleUrls,
                               {"captcha_urls"}) EXCEPT !.captcha_urls = l]>>
             /\ recorded_steps' = RECORD_STEP(recorded_steps, ALL_BLOCKED, blocked)
             /\ Return(TaskResult(FALSE, ALL_BLOCKED, Len(heap) + 2))
    /\ UNCHANGED <<handles, captcha_detected, captcha_url, captcha_urls, browser, query, llm_service, reader, corrector, workstreams, requests,
                   locals, wait, usecase, hist>>

\* the results of a successful search, lines 2399-2423 and 2453-2454; the
\* CAPTCHA branch of lines 2404-2419 needs READ_TOP_RESULTS to return
\* CAPTCHA_DETECTED, which it never does
RunReadTop ==
    /\ pc = "read_top"
    /\ \E o \in READ_TOP_RESULTS(handles, pages[cur]), n \in 0..MaxResults :
          LET r == ResultOf(heap, o) IN
          /\ read_result' = r
          /\ recorded_steps' = RECORD_STEP(recorded_steps, "Read top search results", r)
          /\ IF r.success
             THEN /\ heap' = SetKeys(Append(heap, o.data), result.data, {"top_results"})
                  /\ nresults' = n
                  /\ idx' = 1
                  /\ details' = 0
                  /\ pc' = "detail"
                  /\ UNCHANGED final
             ELSE /\ heap' = Append(heap, o.data)
                  /\ n = 0
                  /\ Return(result)
                  /\ UNCHANGED <<nresults, idx, details>>
    /\ UNCHANGED <<handles, captcha_detected, captcha_url, captcha_urls, browser, query, llm_service, reader, corrector, workstreams, requests,
                   plan, result, fallbacks, wait, usecase, hist>>

Min(a, b) == IF a < b THEN a ELSE b

\* detail extraction of result idx, lines 2428-2442: only a successful
\* extraction is recorded
RunDetail ==
    /\ pc = "detail"
    /\ idx <= Min(nresults, DetailLimit)
    /\ \E o \in EXTRACT_DETAILED_CONTENT(pages[cur], ResultUrl) :
          LET r == ResultOf(heap, o) IN
          /\ heap' = Append(heap, o.data)
          /\ pages' = [pages EXCEPT ![cur] = o.page]
          /\ recorded_steps' = IF r.success
                               THEN RECORD_STEP(recorded_steps,
                                                "Extracted detailed content", r)
                               ELSE recorded_steps
          /\ details' = IF r.success THEN details + 1 ELSE details
          /\ hist' = Detect(hist, o, "EXTRACT_DETAILED_CONTENT")
    /\ idx' = idx + 1
    /\ UNCHANGED <<handles, captcha_detected, captcha_url, captcha_urls, cur, pc, query, llm_service, reader, corrector, workstreams, requests,
                   plan, result, read_result, fallbacks, nresults, wait, final, usecase>>

\* end of the enrichment, lines 2444-2451: the search result, recorded before
\* the read, gets detailed_results and extraction_summary and is returned
RunDetailDone ==
    /\ pc = "detail"
    /\ idx > Min(nresults, DetailLimit)
    /\ heap' = SetKeys(heap, result.data, {"detailed_results", "extraction_summary"})
    /\ Return(result)
    /\ UNCHANGED <<handles, captcha_detected, captcha_url, captcha_urls, recorded_steps,
                   browser, query, llm_service, reader, corrector, workstreams, requests, locals, wait, usecase, hist>>

\* ------------------------------------------------------------------ use case
\* a use case that formats the recorded steps alone (a variant the trace
\* property C28 must reject)
NoFinalStep(steps, f) == steps

\* recorded_steps, or one step made from the final result when run() recorded
\* none (lines 76-84)
StepsOrFinal(steps, f) ==
    IF steps = <<>> THEN <<StepRecord("Execute task", f)>> ELSE steps

\* a formatting that completes nothing (a variant the shape property C1 must reject)
LeaveAsRecorded(d) == d

\* lines 104-111 and 154-159: data gets "title" and "url" when it lacks them
FillDefaults(d) ==
    [d EXCEPT !.title = IF @ = Absent THEN "" ELSE @,
              !.url = IF @ = Absent THEN "" ELSE @]

\* the local captcha_detected of lines 88-98: some step carries the sentinel
CaptchaInSteps(steps) == \E i \in DOMAIN steps : steps[i].result.error = CAPTCHA

\* the recorded descriptions that contain the word CAPTCHA
MentionsCaptcha(desc) ==
    desc \in {"Read page content after CAPTCHA", "Read page after CAPTCHA resolution",
              "CAPTCHA detected while fixing issue"}

\* lines 93-101: a step whose result carries the sentinel is titled as a
\* CAPTCHA step
StepDesc(st) ==
    IF st.result.error = CAPTCHA /\ ~MentionsCaptcha(st.step)
    THEN "Detect CAPTCHA and pause: " \o st.step
    ELSE st.step

\* a formatting that appends nothing for an unrecorded final CAPTCHA result (a
\* variant the CAPTCHA-step property C10 must reject)
OnlyRecorded(steps, f) == StepsOrFinal(steps, f)

\* lines 90-161: every step keeps its success flag and its result dict, whose
\* data is completed in place; a final CAPTCHA result that no step carries is
\* appended as one more step
FormattedSteps(steps, f) ==
    LET rec == StepsOrFinal(steps, f)
        fmt == [i \in DOMAIN rec |-> [rec[i] EXCEPT !.step = StepDesc(rec[i])]]
    IN
    IF f.error = CAPTCHA /\ ~CaptchaInSteps(rec)
    THEN Append(fmt, [step |-> "Detect CAPTCHA and pause", success |-> FALSE, result |-> f])
    ELSE fmt

\* the data dicts after the formatting of lines 104-111 and 154-159
FormattedHeap(h, steps) ==
    [d \in DOMAIN h |->
        IF \E i \in DOMAIN steps : steps[i].result.data = d THEN FillDefaults(h[d]) ELSE h[d]]

\* success of every step and of the final result, the last branch of lines
\* 163-174 taken alone (a variant the properties C2 and C3 must reject)
AllStepsSucceeded(f, steps) == (\A i \in DOMAIN steps : steps[i].success) /\ f.success

\* lines 163-174
OverallSuccess(f, steps) ==
    IF f.success /\ f.error # CAPTCHA
    THEN TRUE
    ELSE IF (CaptchaInSteps(steps) /\ f.error = CAPTCHA)
         THEN FALSE
         ELSE (\A i \in DOMAIN steps : steps[i].success) /\ f.success

\* lines 187-203: the argument of cleanup
ForceClose(f, steps) ==
    IF f.error = CAPTCHA /\ ~f.success
    THEN FALSE
    ELSE IF CaptchaInSteps(steps) /\ f.success
         THEN TRUE
         ELSE IF f.success THEN TRUE ELSE TRUE

Close(x) == IF x = "none" THEN "none" ELSE "closed"

\* a cleanup that closes whatever it is told (a variant the no-op property C6
\* must reject)
CloseAlways(h, flag, force) ==
    [playwright |-> Close(h.playwright), browser |-> Close(h.browser),
     context |-> Close(h.context), page |-> Close(h.page)]

\* BrowserAgent.cleanup(force_close), lines 2527-2554
cleanup(h, flag, force) ==
    IF flag /\ ~force
    THEN h
    ELSE [playwright |-> Close(h.playwright), browser |-> Close(h.browser),
          context |-> Close(h.context), page |-> Close(h.page)]

\* lines 2543-2550: the order of the four closes, each under "if self.x:"
CloseOrder == <<"page", "context", "browser", "playwright">>
Position(k) == CHOOSE i \in DOMAIN CloseOrder : CloseOrder[i] = k

\* the close() calls of cleanup that can raise: those it makes
CloseMayRaise(h, flag, force) ==
    {"none"} \cup IF flag /\ ~force THEN {} ELSE {k \in DOMAIN h : h[k] = "open"}

\* cleanup when the close of handle k raised: the handles before k are
\* closed, the except branch logs, and k and the handles after it are left
CleanupRaised(h, k) ==
    [x \in DOMAIN h |-> IF Position(x) < Position(k) THEN Close(h[x]) ELSE h[x]]

\* the step trace as the response carries it
Response(h, steps) == [i \in DOMAIN steps |-> StepContent(h, steps[i])]

\* execute_browser_task_async, lines 73-182: run() has returned; build the steps
\* and overall_success
UcFormat ==
    /\ pc = "returned"
    /\ LET steps == FormattedSteps(recorded_steps, final)
           h == FormattedHeap(heap, steps)
       IN /\ heap' = h
          /\ outcome' = [kind |-> "pending",
                         overall_success |-> OverallSuccess(final, steps),
                         steps |-> Response(h, steps)]
    /\ pc' = "cleanup"
    /\ UNCHANGED <<handles, captcha_detected, captcha_url, captcha_urls, recorded_steps,
                   browser, query, llm_service, reader, corrector, workstreams, requests, locals, wait, final, force_close, hist>>

\* the single step of the two error responses, lines 237-256 and 308-327
SyntheticOutcome(kind) ==
    [kind |-> kind, overall_success |-> FALSE,
     steps |-> <<[step |-> "Execute task", success |-> FALSE,
                  result |-> [success |-> FALSE, error |-> OtherErr,
                              data |-> Data("", "", {})]]>>]

\* lines 205-230: with overall_success (agent_id is never empty, line 60) the
\* Workstream is built and create_workstream is called; the record is written,
\* or building it or writing it raises
WorkstreamWrites(o) == IF o.overall_success THEN {"written", "failed"} ELSE {"none"}

\* a use case without the inner try: the failure reaches the except branch (a
\* variant the best-effort property C18 must reject)
FailOnWriteError(o, w) ==
    IF w = "failed" THEN SyntheticOutcome("exception") ELSE [o EXCEPT !.kind = "normal"]

\* lines 229-232: a failure is logged, and the response built before is returned
AfterWorkstream(o, w) == [o EXCEPT !.kind = "normal"]

\* execute_browser_task_async, lines 184-232: cleanup, the Workstream record,
\* and return
UcCleanup ==
    /\ pc = "cleanup"
    /\ LET fc == ForceClose(final, outcome.steps) IN
          /\ force_close' = fc
          /\ \E k \in CloseMayRaise(handles, captcha_detected, fc) :
                /\ handles' = IF k = "none" THEN cleanup(handles, captcha_detected, fc)
                               ELSE CleanupRaised(handles, k)
                /\ hist' = [hist EXCEPT !.closeRaised = k]
    /\ \E w \in WorkstreamWrites(outcome) :
          /\ workstreams' = w
          /\ outcome' = AfterWorkstream(outcome, w)
    /\ pc' = "done"
    /\ UNCHANGED <<captcha_detected, captcha_url, captcha_urls, recorded_steps, heap,
                   browser, query, llm_service, reader, corrector, requests, locals, wait, final>>

\* except Exception of execute_browser_task_async, lines 234-256: run() catches
\* its own exceptions and nothing after it raises, so the exception is one of
\* the construction of the agent
UcException ==
    /\ pc = "start"
    /\ outcome' = SyntheticOutcome("exception")
    /\ pc' = "done"
    /\ UNCHANGED <<session, browser, query, llm_service, reader, corrector, workstreams, requests, locals, wait, final, force_close, hist>>

\* except SystemExit of execute_browser_task, lines 306-327: the process is
\* told to exit while the task runs
SystemExit ==
    /\ pc # "done"
    /\ outcome' = SyntheticOutcome("system_exit")
    /\ pc' = "done"
    /\ UNCHANGED <<session, browser, query, llm_service, reader, corrector, workstreams, requests, locals, wait, final, force_close, hist>>

Next ==
    \/ RunPlan
    \/ RunOpenUrl
    \/ PageChanges
    \/ WaitTimeout
    \/ WaitPoll
    \/ WaitConfirm
    \/ AfterWaitOpen
    \/ AfterWaitRead
    \/ RunInSite
    \/ RunInSiteRead
    \/ RunReadOpen
    \/ RunReadPage
    \/ RunFixIssue
    \/ RunSearch
    \/ RunFallback
    \/ RunAllBlocked
    \/ RunReadTop
    \/ RunDetail
    \/ RunDetailDone
    \/ UcFormat
    \/ UcCleanup
    \/ UcException
    \/ SystemExit

Spec == Init /\ [][Next]_vars

\* ------------------------------------------------------------------ properties
Returned == outcome.kind \in {"normal", "exception", "system_exit"}
NormalReturn == outcome.kind = "normal"
IsString(x) == x \notin {Absent, PyNone}
LastStep == outcome.steps[Len(outcome.steps)]

\* C1: every Task Outcome the use case returns (normal return, exception path,
\* SystemExit path) has a non-empty list of steps, and every step has
\* result.data.title and result.data.url present as strings, result.error a
\* string or null, and a boolean success
C1_OutcomeShape ==
    Returned =>
        /\ Len(outcome.steps) > 0
        /\ \A i \in DOMAIN outcome.steps :
              LET st == outcome.steps[i] IN
              /\ IsString(st.result.data.title)
              /\ IsString(st.result.data.url)
              /\ IsString(st.result.error)
              /\ st.success \in BOOLEAN
              /\ st.result.success \in BOOLEAN

\* a normal return in which a step recorded without a title got one
C1_Witness ==
    /\ NormalReturn
    /\ \E i \in DOMAIN recorded_steps :
          /\ outcome.steps[i].result.data.title = ""
          /\ outcome.steps[i].result.data.url = ""

\* C2: on a normal return overall_success is true exactly when the final
\* result of run() has success = true and an error other than CAPTCHA_DETECTED
C2_OverallIsFinal ==
    NormalReturn => (outcome.overall_success <=> (final.success /\ final.error # CAPTCHA))

\* a challenge was detected, the wait ended resolved, the following work
\* succeeded and the run is reported successful
C2_Witness ==
    /\ NormalReturn
    /\ hist.detected # {}
    /\ wait.outcome = "resolved"
    /\ outcome.overall_success
    /\ \E i \in DOMAIN outcome.steps : ~outcome.steps[i].success

ReadTopFailedLast ==
    /\ final.success
    /\ LastStep.step = "Read top search results"
    /\ ~LastStep.success

Before(i) == StepContent(heap, recorded_steps[i])
After(i) == StepContent(heap', recorded_steps'[i])

\* C4 as stated: while run() executes, once a Step Record is at index i, its
\* content (step text, success, the whole result including result.data) never
\* changes
C4_StepsNeverChange ==
    [][pc # "returned" =>
          \A i \in DOMAIN recorded_steps :
              i \in DOMAIN recorded_steps' /\ After(i) = Before(i)]_vars

LateKeys == {"top_results", "detailed_results", "extraction_summary"}

\* C4: records are never removed or reordered, and the step text, success,
\* result.success, result.error and every value held by result.data never
\* change; result.data may gain the keys top_results, detailed_results and
\* extraction_summary while run() goes on, and title and url (as "") when the
\* use case formats the steps
C4_StepsOnlyGainKeys ==
    [][\A i \in DOMAIN recorded_steps :
          /\ i \in DOMAIN recorded_steps'
          /\ After(i).step = Before(i).step
          /\ After(i).success = Before(i).success
          /\ After(i).result.success = Before(i).result.success
          /\ After(i).result.error = Before(i).result.error
          /\ After(i).result.data.captcha_urls = Before(i).result.data.captcha_urls
          /\ Before(i).result.data.keys \subseteq After(i).result.data.keys
          /\ After(i).result.data.keys \ Before(i).result.data.keys \subseteq LateKeys
          /\ \/ After(i).result.data.title = Before(i).result.data.title
             \/ /\ pc = "returned"
                /\ Before(i).result.data.title = Absent
                /\ After(i).result.data.title = ""
          /\ \/ After(i).result.data.url = Before(i).result.data.url
             \/ /\ pc = "returned"
                /\ Before(i).result.data.url = Absent
                /\ After(i).result.data.url = ""]_vars

\* the recorded search step holds top_results, which run() added to the
\* result after recording it, and later steps follow it
C4_Witness ==
    \E i \in DOMAIN recorded_steps :
        /\ recorded_steps[i].step = "Searched DuckDuckGo"
        /\ "top_results" \in heap[recorded_steps[i].result.data].keys
        /\ i < Len(recorded_steps)

BrowserHandles == {"page", "context", "browser"}
AllHandles == BrowserHandles \cup {"playwright"}
HandleStates == {NoHandles, OpenHandles, HalfHandles}

\* C5 as stated: after the use case's cleanup, the browser is still open when
\* captcha_detected is set and the final result is not successful (the
\* ALL_FALLBACKS_BLOCKED outcome included), and the page, context and browser
\* are closed otherwise
C5_CleanupPolicy ==
    NormalReturn =>
        IF captcha_detected /\ ~final.success
        THEN handles.browser = "open"
        ELSE \A k \in BrowserHandles : handles[k] # "open"

\* every strategy was blocked, the flag is set, and the browser was closed
C5_ClosedWhileBlocked ==
    /\ NormalReturn
    /\ final.error = ALL_BLOCKED
    /\ captcha_detected
    /\ handles.browser = "closed"

C7_ForceCloseIffCompleted ==
    NormalReturn =>
        /\ force_close \in BOOLEAN
        /\ force_close = FALSE <=> (~final.success /\ final.error \in {CAPTCHA, ALL_BLOCKED})

\* what the use case does: force_close is false exactly when the final result
\* failed with CAPTCHA_DETECTED
C7_ForceCloseAsCoded ==
    NormalReturn =>
        /\ force_close \in BOOLEAN
        /\ force_close = FALSE <=> (~final.success /\ final.error = CAPTCHA)

\* every strategy was blocked and cleanup was called with force_close = true
C7_ForcedWhileBlocked ==
    NormalReturn /\ final.error = ALL_BLOCKED /\ force_close = TRUE

\* run() has returned to the use case
RunReturned == pc \in {"returned", "cleanup"} \/ NormalReturn
HasCaptchaStep ==
    \E i \in DOMAIN outcome.steps :
        outcome.steps[i].result.error = CAPTCHA /\ ~outcome.steps[i].success

\* C8 as stated: if some primitive reported CAPTCHA_DETECTED and the page no
\* longer shows the challenge, no wait having timed out, then
\* WAIT_FOR_CAPTCHA_COMPLETION returned True and run() appended a Step Record
\* after the one that carried CAPTCHA_DETECTED
C8_ClearedMeansResolved ==
    (RunReturned /\ hist.detected # {} /\ PageClear(pages[cur]) /\ wait.outcome # "timeout")
        => (wait.outcome = "resolved" /\ Len(recorded_steps) > hist.captchaStep)

\* C8: if OPEN_URL or the page read that follows it (or the READ_PAGE plan's
\* read) reported CAPTCHA_DETECTED, and while the wait still has a poll to
\* make the page stops showing the challenge, its url holds no CAPTCHA
\* indicator, and it stays so until run() returns, then
\* WAIT_FOR_CAPTCHA_COMPLETION returned True and run() appended a Step Record
\* after the one that carried CAPTCHA_DETECTED
C8_ClearedWaitResolves ==
    /\ (pc = "after_wait" /\ hist.cleared) => wait.outcome = "resolved"
    /\ (RunReturned /\ hist.waits > 0 /\ hist.cleared)
          => (wait.outcome = "resolved" /\ Len(recorded_steps) > hist.captchaStep)

\* a wait was entered, the page cleared and stayed clear, the wait resolved
\* and a record follows the CAPTCHA record
C8_Witness ==
    /\ RunReturned
    /\ hist.waits > 0
    /\ hist.cleared
    /\ wait.outcome = "resolved"
    /\ Len(recorded_steps) > hist.captchaStep
    /\ recorded_steps[hist.captchaStep].result.error = CAPTCHA

\* C9 as stated: whenever a primitive invoked by run() returned
\* CAPTCHA_DETECTED, WAIT_FOR_CAPTCHA_COMPLETION was invoked after it, before
\* run() returned
C9_DetectionPauses == RunReturned => ~hist.unpaused

WaitedDetections == {"OPEN_URL", "READ_PAGE"}

\* C9: WAIT_FOR_CAPTCHA_COMPLETION is invoked before run() returns exactly
\* when CAPTCHA_DETECTED was returned by OPEN_URL or by the first page read (the
\* one after a successful open, or the READ_PAGE plan's); a detection by the
\* search, a fallback, the in-site search, detail extraction or the read that
\* follows a wait invokes no wait
C9_OnlyOpenAndReadPause ==
    RunReturned => (hist.waits > 0 <=> hist.detected \cap WaitedDetections # {})

\* a page read reported CAPTCHA_DETECTED and the wait was entered
C9_Witness ==
    /\ RunReturned
    /\ "READ_PAGE" \in hist.detected
    /\ hist.waits > 0
    /\ wait.outcome \in {"resolved", "timeout"}

DroppedDetections == {"EXTRACT_DETAILED_CONTENT", "in-site READ_PAGE"}

BlockedFallbacks ==
    {i \in DOMAIN recorded_steps :
        IsFallbackStep(recorded_steps[i]) /\ recorded_steps[i].result.error = CAPTCHA}

\* the url at which the primary search was blocked and the url of every
\* blocked fallback
AccumulatedCaptchaUrls ==
    {heap[result.data].url} \cup {heap[recorded_steps[i].result.data].url : i \in BlockedFallbacks}

NoDuplicates(l) == \A i, j \in DOMAIN l : l[i] = l[j] => i = j

\* C11 as stated: the ALL_FALLBACKS_BLOCKED result's data.captcha_urls holds,
\* without duplicates, the url at which the primary search was blocked and the
\* url of every fallback that was blocked
C11_AllBlockedListsEveryUrl ==
    (RunReturned /\ final.error = ALL_BLOCKED) =>
        /\ NoDuplicates(heap[final.data].captcha_urls)
        /\ Range(heap[final.data].captcha_urls) = AccumulatedCaptchaUrls

\* every strategy was blocked and the url at which the primary search was
\* blocked is not in data.captcha_urls
C11_PrimaryUrlLost ==
    /\ RunReturned
    /\ final.error = ALL_BLOCKED
    /\ result.error = CAPTCHA
    /\ heap[result.data].url \notin Range(heap[final.data].captcha_urls)

AllowedEngines == {"duckduckgo"}
\* the fallback loop has this list; entries before idx have been executed
InFallbackLoop == pc \in {"fallback", "all_blocked"}

\* C12 as stated: no Fallback Strategy that REASON_AND_CHOOSE_FALLBACK returns
\* has type = search_engine with an engine outside {"duckduckgo"}
C12_EngineAllowed ==
    InFallbackLoop =>
        \A i \in DOMAIN fallbacks :
            fallbacks[i].type = "search_engine" => fallbacks[i].engine \in AllowedEngines

\* a search_engine strategy with the engine "DuckDuckGo" was returned and
\* executed, and its Step Record is the failure of an unknown strategy
C12_MixedCaseEngineFails ==
    /\ InFallbackLoop
    /\ idx > 1
    /\ fallbacks[idx - 1] = Fallback("search_engine", "DuckDuckGo")
    /\ IsFallbackStep(recorded_steps[Len(recorded_steps)])
    /\ recorded_steps[Len(recorded_steps)].result.error = OtherErr

\* C13 as stated: no site_search strategy that REASON_AND_CHOOSE_FALLBACK
\* returns names a site that the query does not name
C13_SiteNamedInQuery ==
    InFallbackLoop =>
        \A i \in DOMAIN fallbacks :
            fallbacks[i].type = "site_search" => fallbacks[i].site \in SitesNamed(query)

\* a site_search for a site the query does not name was returned and executed
C13_UnnamedSiteSearched ==
    /\ InFallbackLoop
    /\ idx > 1
    /\ fallbacks[idx - 1] = SiteFallback(OtherSite)
    /\ OtherSite \notin SitesNamed(query)
    /\ IsFallbackStep(recorded_steps[Len(recorded_steps)])

\* the planning step has run and produced a plan
Planned == plan # NoPlan

\* C14 as stated: for a query that names a website of the domain map next
\* to a navigation keyword, the plan is OPEN_URL with the URL the domain map
\* assigns to the site, whatever the oracle did
C14_SiteQueryOpensSite ==
    (Planned /\ query.site) => plan = ActionPlan("OPEN_URL", SiteUrl)

\* a query that names a website was planned as a search, and the search ran
C14_SiteQuerySearched ==
    /\ query.site
    /\ plan.action = "SEARCH_DUCKDUCKGO"
    /\ Len(recorded_steps) >= 2
    /\ recorded_steps[2].step = "Searched DuckDuckGo"

\* ------------------------------------- READ_TOP_RESULTS on a page of links
\* the agent as constructed, for one query, and a page for READ_TOP_RESULTS
ReaderInit ==
    /\ AgentInit
    /\ query = DefaultQuery
    /\ llm_service = "none"
    /\ reader \in ReaderInputs
    /\ corrector = IdleCorrector
    /\ workstreams = "none"
    /\ requests = NoRequests

agent == <<handles, captcha_detected, captcha_url, captcha_urls, recorded_steps, heap,
           pages, cur, pc, query, llm_service, plan, result, read_result, fallbacks, idx,
           nresults, details, wait, final, outcome, force_close, hist, workstreams>>

\* one element of the selector loop
ReadElement ==
    /\ reader.phase = "selectors"
    /\ reader.matched
    /\ reader.i <= Len(reader.hrefs)
    /\ reader' = [reader EXCEPT
          !.i = @ + 1,
          !.results = @ \o (IF reader.variant = "sweeping"
                            THEN SelectorEntry(reader.hrefs[reader.i], reader.engine)
                            ELSE PrefixEntry(reader.hrefs[reader.i], reader.engine))]
    /\ UNCHANGED <<agent, corrector, requests>>

SelectorsDone ==
    /\ reader.phase = "selectors"
    /\ ~reader.matched \/ reader.i > Len(reader.hrefs)

\* "if not results": the sweeping variant turns to all the a[href] of the page
StartSweep ==
    /\ SelectorsDone
    /\ reader.variant = "sweeping"
    /\ reader.results = <<>>
    /\ reader' = [reader EXCEPT !.phase = "sweep", !.i = 1]
    /\ UNCHANGED <<agent, corrector, requests>>

\* one link of the sweep
SweepLink ==
    /\ reader.phase = "sweep"
    /\ reader.i <= Len(reader.hrefs)
    /\ reader' = [reader EXCEPT !.i = @ + 1,
                                !.results = @ \o SweepEntry(reader.hrefs[reader.i])]
    /\ UNCHANGED <<agent, corrector, requests>>

\* the TaskResult with "results" is returned
ReaderReturn ==
    /\ \/ SelectorsDone /\ (reader.variant = "prefixing" \/ reader.results # <<>>)
       \/ reader.phase = "sweep" /\ reader.i > Len(reader.hrefs)
    /\ reader' = [reader EXCEPT !.phase = IF reader.phase = "sweep" THEN "swept" ELSE "read"]
    /\ UNCHANGED <<agent, corrector, requests>>

ReaderNext == ReadElement \/ StartSweep \/ SweepLink \/ ReaderReturn

ReaderSpec == ReaderInit /\ [][ReaderNext]_vars

\* C15 as stated: every Result Entry that READ_TOP_RESULTS emits, on the
\* selector path and on the sweep over a[href], has a url that starts with
\* "http"
C15_EntriesStartWithHttp ==
    \A k \in DOMAIN reader.results : StartsWithHttp(reader.results[k])

\* the sweep returned the root-relative href of a link as the url of a
\* Result Entry
C15_SweepKeepsRelativeHref ==
    /\ reader.phase = "swept"
    /\ \E k \in DOMAIN reader.results : reader.results[k] = RootRelative

\* every call of the oracle raises or returns an unusable object
OracleFails == llm_service = "failing"
ShapedStep(st) ==
    /\ IsString(st.result.data.title)
    /\ IsString(st.result.data.url)
    /\ IsString(st.result.error)
    /\ st.success \in BOOLEAN
    /\ st.result.success \in BOOLEAN

\* C16: when every call of the oracle raises or returns an unusable object,
\* the plan is the one of the deterministic rules (a named website is opened
\* at its mapped URL, else a URL in the query is opened, else the query is
\* searched on DuckDuckGo), the fallback list is the DuckDuckGo retry followed
\* only by site searches for sites the query names, run() returns a
\* TaskResult, and the Task Outcome has the required shape
C16_FailingOracleIsDeterministic ==
    OracleFails =>
        /\ Planned =>
              plan = IF query.site THEN ActionPlan("OPEN_URL", SiteUrl)
                     ELSE IF query.url THEN ActionPlan("OPEN_URL", QueryUrl)
                     ELSE ActionPlan("SEARCH_DUCKDUCKGO", TextOf(query))
        /\ InFallbackLoop =>
              /\ Len(fallbacks) >= 1
              /\ fallbacks[1] = Fallback("search_engine", "duckduckgo")
              /\ \A i \in 2..Len(fallbacks) :
                    /\ fallbacks[i].type = "site_search"
                    /\ fallbacks[i].site \in SitesNamed(query)
        /\ RunReturned => final # NoResult /\ final.success \in BOOLEAN
        /\ Returned =>
              /\ Len(outcome.steps) > 0
              /\ \A i \in DOMAIN outcome.steps : ShapedStep(outcome.steps[i])

\* with a failing oracle a query was searched, the default fallback was tried
\* and blocked, and the use case returned the outcome
C16_Witness ==
    /\ OracleFails
    /\ NormalReturn
    /\ plan = ActionPlan("SEARCH_DUCKDUCKGO", QueryText)
    /\ fallbacks = <<Fallback("search_engine", "duckduckgo")>>
    /\ final.error = ALL_BLOCKED

\* ------------------------------------------------- run() with internal errors
\* the places of run() between two recorded steps
BetweenSteps == {"open", "after_open", "insite_read", "read_open", "read_page", "fix",
                 "search", "fallback", "all_blocked", "read_top", "detail", "after_wait"}

\* except Exception of run(), lines 2515-2521, entered after the planning step
\* was recorded: the TaskResult has success=False and error=str(e), and the
\* steps recorded so far stay
RunRaises ==
    /\ pc \in BetweenSteps
    /\ heap' = Append(heap, EmptyData)
    /\ Return(TaskResult(FALSE, OtherErr, Len(heap) + 1))
    /\ hist' = [hist EXCEPT !.raised = TRUE]
    /\ UNCHANGED <<handles, captcha_detected, captcha_url, captcha_urls, recorded_steps,
                   browser, query, llm_service, reader, corrector, workstreams, requests, locals, wait, usecase>>

FaultNext == Next \/ RunRaises

FaultSpec == Init /\ [][FaultNext]_vars

\* an internal error ended run(), or the use case took its except branch
InternalError == hist.raised \/ outcome.kind = "exception"

\* C17 as stated: an internal error (run() ended in its except branch, with or
\* without steps recorded, or the use case took its except branch) gives a
\* Task Outcome with overall_success = false and a single Step Record, a
\* failed one that carries the error, with title and url present
C17_ErrorGivesOneFailedStep ==
    (Returned /\ InternalError) =>
        /\ ~outcome.overall_success
        /\ Len(outcome.steps) = 1
        /\ ~outcome.steps[1].success
        /\ ~outcome.steps[1].result.success
        /\ outcome.steps[1].result.error \notin {Null, Absent, PyNone}
        /\ ShapedStep(outcome.steps[1])

\* run() ended in its except branch after steps were recorded, and the Task
\* Outcome holds those steps only: none of them failed, none carries the error
C17_ErrorInNoStep ==
    /\ NormalReturn
    /\ hist.raised
    /\ ~outcome.overall_success
    /\ Len(outcome.steps) > 1
    /\ \A i \in DOMAIN outcome.steps :
          outcome.steps[i].success /\ outcome.steps[i].result.error = Null

\* C18: a Workstream record is written only for a Task Outcome with
\* overall_success = true, and when building or writing the record fails the
\* Task Outcome returned is the response built before the attempt, the same
\* as when the write succeeds
C18_WorkstreamIsBestEffort ==
    /\ [](workstreams # "none" => NormalReturn /\ outcome.overall_success)
    /\ [][(pc = "cleanup" /\ workstreams' # workstreams) =>
            /\ outcome'.kind = "normal"
            /\ outcome'.overall_success = outcome.overall_success
            /\ outcome'.steps = outcome.steps]_vars

\* the write of the Workstream record failed and the successful Task Outcome
\* was returned
C18_Witness ==
    /\ workstreams = "failed"
    /\ NormalReturn
    /\ outcome.overall_success
    /\ Len(outcome.steps) > 1

\* ------------------------------------------- two requests served at once
\* Each request thread calls execute_browser_task of the one BrowserUseCase:
\* it makes an event loop and a BrowserAgent of its own, runs it, formats the
\* recorded steps and cleans up.  An agent is an object of the heap `agents`;
\* a request holds the index of its agent.
MaxSteps == 2
QueryOf(r) == IF r = 1 THEN "first query" ELSE "second query"

\* a use case that keeps one agent for all requests (a variant the isolation
\* property C19 must reject)
SharedAgent(ags) == 1

\* BrowserAgent(...): a new object
NewAgent(ags) == Len(ags) + 1

\* __init__: the fields of a new agent; browser 0 is None
FreshAgent(q) ==
    [task_query |-> q, browser |-> 0, open |-> FALSE, captcha_detected |-> FALSE,
     captcha_url |-> PyNone, recorded_steps |-> <<>>]

Constructed(ags, id, q) ==
    IF id \in DOMAIN ags THEN [ags EXCEPT ![id] = FreshAgent(q)]
    ELSE Append(ags, FreshAgent(q))

PairInit ==
    /\ AgentInit
    /\ query = DefaultQuery
    /\ llm_service = "none"
    /\ reader = IdleReader
    /\ corrector = IdleCorrector
    /\ workstreams = "none"
    /\ requests = [NoRequests EXCEPT !.req = [r \in Requests |-> [@[r] EXCEPT !.pc = "received"]]]

single == <<agent, reader, corrector>>

\* browser_usecase.py lines 58-70: the request makes its agent
Construct(r) ==
    /\ requests.req[r].pc = "received"
    /\ LET id == NewAgent(requests.agents) IN
       requests' = [requests EXCEPT
          !.agents = Constructed(@, id, QueryOf(r)),
          !.req[r] = [@ EXCEPT !.pc = "running", !.agent = id]]
    /\ UNCHANGED single

\* a primitive of the request's agent and the RECORD_STEP that follows:
\* initialize_browser launches a browser if the agent has none, a detection
\* sets the agent's flag and url, and the step names the agent's query
Primitive(r) ==
    /\ requests.req[r].pc = "running"
    /\ requests.req[r].n < MaxSteps
    /\ \E res \in {"ok", "captcha", "failed"} :
          LET a == requests.req[r].agent
              ag == requests.agents[a]
              launch == ag.browser = 0
              b == IF launch THEN requests.launched + 1 ELSE ag.browser
          IN requests' = [requests EXCEPT
                !.launched = IF launch THEN b ELSE @,
                !.agents[a] = [ag EXCEPT
                    !.browser = b,
                    !.open = TRUE,
                    !.captcha_detected = @ \/ res = "captcha",
                    !.captcha_url = IF res = "captcha" THEN <<"page of browser", b>> ELSE @,
                    !.recorded_steps = Append(@, [step |-> ag.task_query,
                                                  success |-> res = "ok",
                                                  browser |-> b])],
                !.req[r] = [@ EXCEPT !.n = @ + 1]]
    /\ UNCHANGED single

\* run() has returned: the steps of the response are the agent's
\* recorded_steps, and cleanup closes the agent's browser unless a CAPTCHA
\* keeps it open
Respond(r) ==
    /\ requests.req[r].pc = "running"
    /\ requests.req[r].n > 0
    /\ LET a == requests.req[r].agent
           ag == requests.agents[a]
       IN requests' = [requests EXCEPT
             !.agents[a] = [ag EXCEPT !.open = @ /\ ag.captcha_detected],
             !.req[r] = [@ EXCEPT !.pc = "responded", !.steps = ag.recorded_steps]]
    /\ UNCHANGED single

ReqConstruct == \E r \in Requests : Construct(r)
ReqPrimitive == \E r \in Requests : Primitive(r)
ReqRespond == \E r \in Requests : Respond(r)

PairNext == ReqConstruct \/ ReqPrimitive \/ ReqRespond

PairSpec == PairInit /\ [][PairNext]_vars

\* the agent of request r, once it has one
HasAgent(r) == requests.req[r].agent # 0
AgentOf(r) == requests.agents[requests.req[r].agent]
OwnStep(st, r) == st.step = QueryOf(r) /\ st.browser = AgentOf(r).browser

\* C19: two requests served at once each have an agent of their own with a
\* browser of its own; every Step Record of an agent and of a response is one
\* of the request's own run; the captcha_url of an agent is a page of its own
\* browser; and a step of one request leaves the agent of the other (its
\* steps, flag, url and handles) as it was
C19_SessionsAreIsolated ==
    /\ [](\A r \in Requests : HasAgent(r) =>
            /\ AgentOf(r).task_query = QueryOf(r)
            /\ \A o \in Requests \ {r} : HasAgent(o) =>
                  /\ requests.req[o].agent # requests.req[r].agent
                  /\ AgentOf(r).browser # 0 => AgentOf(o).browser # AgentOf(r).browser
            /\ \A i \in DOMAIN AgentOf(r).recorded_steps :
                  OwnStep(AgentOf(r).recorded_steps[i], r)
            /\ \A i \in DOMAIN requests.req[r].steps : OwnStep(requests.req[r].steps[i], r)
            /\ AgentOf(r).captcha_detected =>
                  AgentOf(r).captcha_url = <<"page of browser", AgentOf(r).browser>>)
    /\ [][\A r \in Requests :
            (HasAgent(r) /\ requests'.req[r] = requests.req[r]) =>
                requests'.agents[requests.req[r].agent] = AgentOf(r)]_vars

\* both requests have responded, one of them after a detection, and their
\* runs were interleaved
C19_Witness ==
    /\ \A r \in Requests : requests.req[r].pc = "responded" /\ Len(requests.req[r].steps) = MaxSteps
    /\ AgentOf(1).captcha_detected
    /\ ~AgentOf(2).captcha_detected
    /\ AgentOf(1).browser = 2

\* WAIT_FOR_CAPTCHA_COMPLETION returns True in this step
Resolves == wait.outcome # "resolved" /\ wait'.outcome = "resolved"
\* captcha_detected is reset in this step
FlagCleared == captcha_detected /\ ~captcha_detected'

\* C20 as stated: WAIT_FOR_CAPTCHA_COMPLETION returns True, and
\* captcha_detected is reset, only after two clear votes in the same poll: the
\* first check and the detector of the confirmation
C20_ResolvedAfterTwoClearVotes ==
    /\ [][Resolves => (wait.first = "clear" /\ wait'.second = "clear")]_vars
    /\ [][FlagCleared => (Resolves /\ wait'.second = "clear")]_vars

\* C20, amended: True is returned and captcha_detected is reset only in the
\* confirmation of a poll whose first vote was clear, and either the detector
\* of the confirmation found no challenge on the page or the confirmation
\* raised before a second vote was taken; after a second vote that finds a
\* challenge the wait goes on
C20_ResolvedAfterClearOrFailedConfirmation ==
    /\ [][Resolves =>
            /\ pc = "wait_confirm"
            /\ wait.first = "clear"
            /\ ~captcha_detected'
            /\ \/ wait'.second = "error"
               \/ wait'.second = "clear" /\ ~DETECT_CAPTCHA(pages, cur)]_vars
    /\ [][FlagCleared => Resolves]_vars
    /\ [][(pc = "wait_confirm" /\ wait'.second = "challenge") =>
            (pc' = "wait" /\ wait'.outcome # "resolved"
             /\ captcha_detected' = captcha_detected)]_vars

\* the confirmation raised while the page showed a challenge again, and the
\* wait returned True and reset the flag without a second vote
C20_Witness ==
    /\ pc = "after_wait"
    /\ wait.outcome = "resolved"
    /\ wait.first = "clear"
    /\ wait.second = "error"
    /\ ~captcha_detected
    /\ pages[cur].challenge

\* ------------------------------------------------- the wait with poll errors
\* except Exception of the poll, lines 290-293: reading the url or the first
\* check raised; the error is logged, check_interval is slept again and the
\* loop goes on
WaitPollRaises ==
    /\ pc = "wait"
    /\ wait.elapsed < MaxPolls
    /\ wait' = [wait EXCEPT !.elapsed = @ + 1, !.first = "error", !.second = "none"]
    /\ UNCHANGED <<session, browser, pc, query, llm_service, reader, corrector, workstreams, requests,
                   locals, final, usecase, hist>>

WaitNext == Next \/ WaitPollRaises

\* the event loop resumes the coroutine when its sleep or its awaited call is
\* over: the loop of the wait and the caller's code after it take their steps
WaitLoop == WaitTimeout \/ WaitPoll \/ WaitPollRaises \/ WaitConfirm
WaitSpec ==
    /\ Init
    /\ [][WaitNext]_vars
    /\ WF_vars(WaitLoop)
    /\ WF_vars(AfterWaitOpen \/ AfterWaitRead)

\* the result whose CAPTCHA_DETECTED started the wait
WaitedResult == IF wait.ctx = "read_open" THEN read_result ELSE result
Exited == pc = "done" /\ outcome.kind = "system_exit"
\* a step of run(), not one of the page
RunStep == pc' # pc \/ wait' # wait

FirstPartRaised == wait'.elapsed = wait.elapsed + 1 /\ wait'.first = "error"
\* this step is a confirmation that raised
ConfirmationRaised == wait.second # "error" /\ wait'.second = "error"
StillPaused == pc' = "wait" /\ wait'.outcome = "none" /\ captcha_detected' = captcha_detected

\* C22 as stated: an error raised during a poll, in its first part or in its
\* confirmation, does not end the wait: no value is returned and the loop
\* polls again
C22_ErrorNeverEndsWait ==
    [][(FirstPartRaised \/ ConfirmationRaised) => StillPaused]_vars

\* C22, amended: an error raised in the first part of a poll (reading the url,
\* the first check) does not end the wait, which returns nothing and goes back
\* to the head of its loop with the time of the poll used up; an error raised
\* in the confirmation ends the wait: True is returned and captcha_detected is
\* reset
C22_OnlyConfirmationErrorEndsWait ==
    /\ [][FirstPartRaised => (pc = "wait" /\ StillPaused)]_vars
    /\ [][ConfirmationRaised =>
            /\ pc = "wait_confirm"
            /\ pc' = "after_wait"
            /\ wait'.outcome = "resolved"
            /\ ~captcha_detected']_vars

\* the last poll the time allowed found the page clear, its confirmation
\* raised, and the wait returned True
C22_Witness ==
    /\ pc = "after_wait"
    /\ wait.elapsed = MaxPolls
    /\ wait.second = "error"
    /\ Resolved(wait)
    /\ ~captcha_detected

\* ------------------------------------------------------------ fallback loop
\* the Step Records of the fallback attempts, oldest first
RECURSIVE FallbackSteps(_)
FallbackSteps(steps) ==
    IF steps = <<>> THEN <<>>
    ELSE (IF IsFallbackStep(Head(steps)) THEN <<Head(steps)>> ELSE <<>>)
         \o FallbackSteps(Tail(steps))

\* C23: the strategies executed are a prefix of the list
\* REASON_AND_CHOOSE_FALLBACK returned, each entry of the list executed once
\* and in order; the Step Records of the attempts are 'Fallback attempt 1',
\* 'Fallback attempt 2', ... one per executed strategy; every attempt but the
\* last failed; and when the last one succeeded run() has returned its result
\* and executes no other strategy
C23_FallbacksInOrderUntilSuccess ==
    LET n == Len(hist.executed)
        fs == FallbackSteps(recorded_steps)
    IN
    /\ n <= Len(fallbacks)
    /\ hist.executed = SubSeq(fallbacks, 1, n)
    /\ Len(fs) = n
    /\ \A i \in 1..n :
          /\ fs[i].step = FallbackDesc(i)
          /\ i < n => ~(fs[i].result.success /\ fs[i].result.error # CAPTCHA)
    /\ (n > 0 /\ fs[n].result.success /\ fs[n].result.error # CAPTCHA) =>
          /\ pc \notin {"fallback", "all_blocked"}
          /\ RunReturned => final = fs[n].result
    /\ pc = "fallback" => idx = n + 1
    /\ pc = "all_blocked" => n = Len(fallbacks)

\* the first strategy was blocked, the second succeeded and its result is the
\* final result
C23_Witness ==
    /\ RunReturned
    /\ Len(hist.executed) = 2
    /\ Len(fallbacks) = 2
    /\ FallbackSteps(recorded_steps)[1].result.error = CAPTCHA
    /\ final = FallbackSteps(recorded_steps)[2].result
    /\ final.success

\* the Fallback Chooser was invoked
ChooserInvoked == fallbacks # <<>>
\* the primary search of a SEARCH_DUCKDUCKGO plan returned this result
SearchedWith(e) ==
    /\ plan.action = "SEARCH_DUCKDUCKGO"
    /\ Len(recorded_steps) >= 2
    /\ recorded_steps[2].step = "Searched DuckDuckGo"
    /\ ~recorded_steps[2].success
    /\ recorded_steps[2].result.error = e

\* C24 as stated: when the primary search of a SEARCH_DUCKDUCKGO plan returned
\* CAPTCHA_DETECTED or another failure, run() has invoked the Fallback Chooser
\* and executed strategies before it returns
C24_FailedSearchFallsBack ==
    (RunReturned /\ ~hist.raised /\ (SearchedWith(CAPTCHA) \/ SearchedWith(OtherErr))) =>
        (ChooserInvoked /\ hist.executed # <<>>)

\* the primary search failed without a CAPTCHA and run() returned its result:
\* the Fallback Chooser was not invoked and no strategy was executed
C24_FailedSearchReturned ==
    /\ RunReturned
    /\ SearchedWith(OtherErr)
    /\ ~ChooserInvoked
    /\ hist.executed = <<>>
    /\ final = recorded_steps[2].result
    /\ Len(recorded_steps) = 2

\* the pages of the context other than the page of initialize_browser
OpenTabs == {i \in Tabs : pages[i] # NoPage}

\* C25 as stated: after every fallback attempt the tab opened for it is closed
\* and self.page is the page that was active before the loop
C25_TabClosedAndPageRestored ==
    hist.executed # <<>> => (cur = MainPage /\ OpenTabs = {})

\* the close of the tab of an attempt raised: the attempt is over, the tab is
\* open and self.page still refers to it
C25_TabLeftActive ==
    /\ hist.executed # <<>>
    /\ pc \in {"fallback", "all_blocked", "returned"}
    /\ cur \in OpenTabs

\* ------------------------------------------------------------------- trace
\* what a step of run() does that the trace is to show: a primitive returned
\* a TaskResult or the plan was made, the wait gave the challenge up
Added == Len(recorded_steps') - Len(recorded_steps)
PrimitiveReturned ==
    /\ Len(heap') > Len(heap)
    /\ pc # "all_blocked"
    /\ pc = "start" => plan' # plan
WaitTimedOut == wait.outcome # "timeout" /\ wait'.outcome = "timeout"
Owed == (IF PrimitiveReturned THEN 1 ELSE 0) + (IF WaitTimedOut THEN 1 ELSE 0)

\* C26 as stated: every primitive run() invokes, the planning decision and
\* the transitions of a CAPTCHA wait each append a Step Record.  The formula
\* asks for less than the claim: the record of the primitive that found the
\* challenge counts for Paused, the record of the next read for Resolved and
\* the record of the first fallback for the choice of the fallbacks
C26_EveryEventIsRecorded == [][Added >= Owed]_vars

\* the detail extraction of the first result navigated the page and failed,
\* and the newest Step Record is still the read of the results
C26_FailedExtractionUnrecorded ==
    /\ pc = "detail"
    /\ idx = 2
    /\ details = 0
    /\ pages[cur].url = ResultUrl
    /\ recorded_steps[Len(recorded_steps)].step = "Read top search results"

IsPlanStep(h, st) ==
    /\ st.step = "Reasoned about query"
    /\ st.success
    /\ st.result.success
    /\ "plan" \in h[st.result.data].keys
OpenedSecond ==
    /\ Len(recorded_steps) >= 2
    /\ recorded_steps[2].step = "Opened URL"
BrowserUntouched == handles = NoHandles /\ pages[MainPage] = BlankPage /\ OpenTabs = {}

\* C27 as stated: every run has the planning step as its first Step Record,
\* appended before a primitive touches the browser, and a run with an
\* OPEN_URL plan has at least the two steps plan and open
C27_PlanStepFirst ==
    /\ recorded_steps = <<>> => BrowserUntouched
    /\ RunReturned =>
          /\ recorded_steps # <<>>
          /\ IsPlanStep(heap, recorded_steps[1])
          /\ plan.action = "OPEN_URL" => OpenedSecond

\* what does hold of the planning step: a run whose planning returns a plan
\* has the planning step as its first Step Record, appended before a
\* primitive touches the browser, and with an OPEN_URL plan at least the two
\* steps plan and open; a run whose planning raises (a query that is not a
\* string) records no step, touches no browser and returns a failed result,
\* and the Task Outcome then has the one failed step the use case makes of
\* that result
C27_PlanStepFirstUnlessPlanningRaised ==
    /\ recorded_steps = <<>> => BrowserUntouched
    /\ recorded_steps # <<>> => (Planned /\ IsPlanStep(heap, recorded_steps[1]))
    /\ Planned => recorded_steps # <<>>
    /\ RunReturned =>
          IF Planned
          THEN plan.action = "OPEN_URL" => OpenedSecond
          ELSE /\ ~query.str
               /\ hist.raised
               /\ ~final.success
               /\ recorded_steps = <<>>
    /\ (NormalReturn /\ ~Planned) =>
          /\ Len(outcome.steps) = 1
          /\ ~outcome.steps[1].success
          /\ outcome.steps[1].step = "Execute task"

\* planning raised, nothing was recorded, and the Task Outcome's first step is
\* the failed step made of the final result
C27_Witness ==
    /\ NormalReturn
    /\ ~Planned
    /\ recorded_steps = <<>>
    /\ outcome.steps[1].step = "Execute task"
    /\ ~outcome.steps[1].success

\* the steps of the outcome begin with the recorded ones: same success, same
\* result
KeepsRecorded ==
    /\ Len(outcome.steps) >= Len(recorded_steps)
    /\ \A i \in DOMAIN recorded_steps :
          /\ outcome.steps[i].success = recorded_steps[i].success
          /\ outcome.steps[i].result.success = recorded_steps[i].result.success
          /\ outcome.steps[i].result.error = recorded_steps[i].result.error
          /\ outcome.steps[i].result.data = FillDefaults(heap[recorded_steps[i].result.data])
Extra == Len(outcome.steps) - Len(recorded_steps)
UnrecordedCaptcha == final.error = CAPTCHA /\ ~CaptchaInSteps(recorded_steps)

C29_PlanIsValid ==
    /\ Planned => (plan.action \in Actions /\ plan.target # "")
    /\ \A q \in {x \in Queries : x.str}, o \in OracleSays("answering") :
          o.kind = "answers" =>
             LET p == REASON_AND_DECIDE(q, o) IN
             /\ p.action = IF o.action \in Actions THEN o.action ELSE "SEARCH_DUCKDUCKGO"
             /\ p.target # ""
             /\ Strip(o.target) = "" => p.target = TextOf(q)

\* for a query of white space the oracle answered OPEN_URL with an empty
\* target; the plan has the empty target and OPEN_URL was called with it
C29_EmptyTargetOpened ==
    /\ query.blank
    /\ plan = ActionPlan("OPEN_URL", "")
    /\ Len(recorded_steps) >= 2
    /\ recorded_steps[2].step = "Opened URL"

\* FIX_ISSUE was called and its result recorded
FixAttempted ==
    /\ plan.action = "FIX_ISSUE"
    /\ Len(recorded_steps) >= 2
    /\ recorded_steps[2].step = "Attempted to fix"

\* C30 as stated: with an oracle configured and the browser launched, FIX_ISSUE
\* returns a successful record, the oracle's solution or, when the call of the
\* oracle failed, the static suggestion it returns without an oracle
C30_FixIssueDegrades ==
    (FixAttempted /\ llm_service # "none" /\ handles.page # "none") =>
        /\ result.success
        /\ heap[result.data].keys \cap {"solution", "suggestion"} # {}

\* the call of the oracle raised in FIX_ISSUE and run() returned the failed
\* result, which holds neither a solution nor the static suggestion
C30_OracleErrorFails ==
    /\ FixAttempted
    /\ RunReturned
    /\ final = result
    /\ ~final.success
    /\ final.error = OracleErr
    /\ heap[final.data].keys = {"issue"}

\* -------------------------------------------------- the detection flag
\* where run() awaits a primitive that has a CAPTCHA branch, and where it is
\* inside WAIT_FOR_CAPTCHA_COMPLETION
PrimitiveCalls == {"open", "search", "fallback", "read_open", "read_page", "insite_read",
                   "after_wait"}
\* run() is about to read the page it opened (no in-site search to make first)
ReadsOpened == pc = "read_open" \/ (pc = "after_open" /\ ~query.insite)
ControllerSteps == {"wait", "wait_confirm"}
FlagRaised == ~captcha_detected /\ captcha_detected'

\* C31 as stated: captcha_detected is set only inside a primitive that
\* detects a challenge and cleared only inside WAIT_FOR_CAPTCHA_COMPLETION;
\* the code of run() itself and cleanup() leave it as it is
C31_OnlyPrimitivesAndControllerWrite ==
    [][/\ FlagRaised => (pc \in PrimitiveCalls \/ ReadsOpened)
       /\ FlagCleared => pc \in ControllerSteps
       /\ pc \in {"cleanup", "done"} => captcha_detected' = captcha_detected]_vars

\* the open and nothing else had gone well, run() submitted the in-site search
\* itself, found the challenge and set the flag before it returned
C31_RunSetTheFlag ==
    /\ RunReturned
    /\ captcha_detected
    /\ hist.detected = {"in-site search"}
    /\ final.error = CAPTCHA
    /\ recorded_steps[Len(recorded_steps)].step = "Opened URL"

\* ------------------------------------------------------------- enrichment
\* the results were read and the detail extraction has begun or is over
Enriching == pc = "detail"
DetailsAdded ==
    /\ RunReturned
    /\ read_result.success
    /\ hist.executed = <<>>
    /\ "detailed_results" \in heap[final.data].keys
\* the page READ_TOP_RESULTS read the entries from
ResultsPageUrl == heap[read_result.data].url

\* C32 as stated: run() extracts the details of at most the first three
\* results, each in a tab of its own that is closed again, and while it does
\* so and afterwards the active page is the page of the search results
C32_EnrichmentKeepsResultsPage ==
    (Enriching \/ DetailsAdded) =>
        /\ idx - 1 <= DetailLimit
        /\ details <= DetailLimit
        /\ OpenTabs = {}
        /\ pages[cur].url = ResultsPageUrl

\* the first result was extracted in the session's own page, which is the
\* active page and now shows the result instead of the list of results
C32_ResultsPageLost ==
    /\ Enriching
    /\ idx = 2
    /\ details = 1
    /\ cur = MainPage
    /\ OpenTabs = {}
    /\ ResultsPageUrl = DdgResults
    /\ pages[cur].url = ResultUrl

\* ------------------------------------------------------ failures of primitives
\* every TaskResult a primitive can return, whatever the session's handles,
\* the page and the strategy
SomePages == SitePages \cup {BlankPage, Page(TRUE, DdgHome)}
SomeStrategies == {Fallback("search_engine", "duckduckgo"), Fallback("search_engine", "DuckDuckGo"),
                   Fallback("cache", ""), SiteFallback(NamedSite)}
PrimitiveOutcomes ==
    UNION {OPEN_URL(h, p, SiteUrl) \cup SEARCH_DUCKDUCKGO(h, p) \cup READ_TOP_RESULTS(h, p)
           \cup EXTRACT_DETAILED_CONTENT(p, ResultUrl) \cup READ_PAGE(h, p, PyNone)
           \cup READ_PAGE(h, p, SiteUrl) \cup SITE_SPECIFIC_SEARCH(p)
           \cup FIX_ISSUE(h, p, "none") \cup FIX_ISSUE(h, p, "failing")
           \cup UNION {EXECUTE_FALLBACK_STRATEGY(fb, h, p) : fb \in SomeStrategies}
           : h \in HandleStates, p \in SomePages}
FailsWithError(r) == r.success = (r.error = Null)

CleanupClosed == NormalReturn /\ (force_close \/ ~captcha_detected)

\* C34 as stated: after cleanup(force_close = true) returns, no handle the
\* session owns is open, also when the close of one of them raised
C34_ForceCloseReleasesAll ==
    (CleanupClosed /\ force_close) => \A k \in AllHandles : handles[k] # "open"

\* cleanup(force_close = true) returned after page.close() raised: the
\* context, the browser and the driver were never closed
C34_HandlesLeftOpen ==
    /\ NormalReturn
    /\ force_close
    /\ hist.closeRaised = "page"
    /\ handles.context = "open"
    /\ handles.browser = "open"
    /\ handles.playwright = "open"

\* ------------------------------------------------------------------ launch
\* run() has called no primitive yet
BeforeFirstPrimitive ==
    \/ pc = "start"
    \/ pc \in {"open", "search", "read_page", "fix"} /\ Len(recorded_steps) = 1
\* the session is fresh, or launched and not closed
Launchable(h) == h \in {NoHandles, OpenHandles}
InRun == pc \notin {"returned", "cleanup", "done"}

Blocked == final.error = CAPTCHA

\* C36: whenever run() returns a final result with CAPTCHA_DETECTED,
\* captcha_detected is set, also when a wait had cleared it before; the
\* use case then calls cleanup with force_close false, which closes nothing,
\* and the browser is open after it
C36_BlockedMeansFlagSet ==
    /\ (RunReturned /\ Blocked) => (captcha_detected /\ ~final.success)
    /\ (NormalReturn /\ Blocked) =>
          /\ force_close = FALSE
          /\ hist.closeRaised = "none"
          /\ handles = OpenHandles

\* a wait had reset the flag, the read after it met a challenge again and set
\* it, and the blocked run left the browser open
C36_Witness ==
    /\ NormalReturn
    /\ Blocked
    /\ wait.outcome = "resolved"
    /\ captcha_detected
    /\ force_close = FALSE
    /\ handles = OpenHandles

\* C37 as stated: whenever run() returns a successful final result,
\* captcha_detected is false, whatever was detected earlier in the run
C37_SuccessMeansFlagClear ==
    (RunReturned /\ final.success) => ~captcha_detected

\* the primary search was blocked, a fallback succeeded and its result was
\* returned, and the flag the primary search set is still set
C37_FlagLeftSet ==
    /\ RunReturned
    /\ final.success
    /\ captcha_detected
    /\ "SEARCH_DUCKDUCKGO" \in hist.detected
    /\ IsFallbackStep(recorded_steps[Len(recorded_steps)])

\* ---------------------------------------------------------- calls of the wait
InWait == pc \in {"wait", "wait_confirm"}
WaitCalled == hist'.waits > hist.waits

\* C38: in a run WAIT_FOR_CAPTCHA_COMPLETION is called at most once; it is
\* called only in the step in which OPEN_URL or a page read returned
\* CAPTCHA_DETECTED, whose Step Record is the newest one; and after the wait
\* run() makes at most one more read and returns (unless the process exits),
\* also when that read meets a challenge again
C38_OneWaitAfterSentinel ==
    [][/\ hist'.waits <= 1
       /\ WaitCalled =>
             /\ (pc \in {"open", "read_page"} \/ ReadsOpened)
             /\ pc' = "wait"
             /\ wait'.elapsed = 0
             /\ Len(recorded_steps') = Len(recorded_steps) + 1
             /\ recorded_steps'[Len(recorded_steps')].result.error = CAPTCHA
       /\ (InWait' /\ ~InWait) => WaitCalled
       /\ (pc = "after_wait" /\ pc' # pc /\ ~Exited') => (pc' = "returned" /\ ~WaitCalled)]_vars

\* the wait had returned True, the read after it met a challenge again, and
\* run() returned that result after one call of the wait
C38_Witness ==
    /\ RunReturned
    /\ hist.waits = 1
    /\ wait.outcome = "resolved"
    /\ final.error = CAPTCHA
    /\ hist.detected \cap {"READ_PAGE retry", "READ_PAGE after OPEN_URL wait"} # {}

\* ------------------------------------------------------ deterministic plans
\* the texts of the model that start with "http"
HttpTexts == {SiteUrl, QueryUrl}
DeterministicActions == {"OPEN_URL", "SEARCH_DUCKDUCKGO"}
\* the oracle gave REASON_AND_DECIDE nothing it could use
Unanswered(o) == o.kind # "answers"

\* C39: without an oracle, or with one that raises or gives an unusable
\* answer, REASON_AND_DECIDE returns the plan of its deterministic rules,
\* which is an OPEN_URL or a SEARCH_DUCKDUCKGO plan and never READ_PAGE or
\* FIX_ISSUE, and the target of such an OPEN_URL plan starts with "http": the
\* URL of the domain map, or the URL found in the query with https:// put in
\* front when it does not start with http
C39_DeterministicPlans ==
    /\ \A u \in FoundUrls : StartsHttp(WithScheme(u))
    /\ \A q \in {x \in Queries : x.str}, svc \in {"none", "failing"} :
          \A o \in {x \in OracleSays(svc) : Unanswered(x)} :
             LET p == REASON_AND_DECIDE(q, o) IN
             /\ p = DeterministicPlan(q)
             /\ p.action \in DeterministicActions
             /\ p.action = "OPEN_URL" => p.target \in HttpTexts
    /\ (Planned /\ llm_service # "answering") =>
          /\ plan.action \in DeterministicActions
          /\ plan.action = "OPEN_URL" => plan.target \in HttpTexts

\* without an oracle a query that holds a bare domain name was planned as
\* OPEN_URL of the name with https:// in front, and the URL was opened
C39_Witness ==
    /\ llm_service = "none"
    /\ query.url
    /\ plan = ActionPlan("OPEN_URL", QueryUrl)
    /\ ~StartsHttp(FoundUrl)
    /\ Len(recorded_steps) >= 2
    /\ recorded_steps[2].step = "Opened URL"


\* ------------------------------------------------ the correction at work
\* a query is given to the correction
TypoInit ==
    /\ AgentInit
    /\ query = DefaultQuery
    /\ llm_service = "none"
    /\ reader = IdleReader
    /\ corrector \in {[IdleCorrector EXCEPT !.phase = "given", !.query = t] : t \in TypoQueries}
    /\ workstreams = "none"
    /\ requests = NoRequests

\* REASON_AND_DECIDE line 777, run() line 2131: the query is corrected
Correct ==
    /\ corrector.phase = "given"
    /\ corrector' = [corrector EXCEPT !.phase = "once",
                                      !.once = _correct_website_typos(corrector.query)]
    /\ UNCHANGED <<agent, reader, requests>>

\* the corrected query is corrected again
CorrectAgain ==
    /\ corrector.phase = "once"
    /\ corrector' = [corrector EXCEPT !.phase = "twice",
                                      !.twice = _correct_website_typos(corrector.once)]
    /\ UNCHANGED <<agent, reader, requests>>

TypoNext == Correct \/ CorrectAgain

TypoSpec == TypoInit /\ [][TypoNext]_vars

\* a token that is one of the misspellings of the table
Misspelled(w) == \E k \in 1..Len(typo_corrections) : lower(w) = typo_corrections[k][1]
\* every token of the query is spelled as it should be
SpelledCorrectly(t) == \A k \in 1..Len(split(t)) : ~Misspelled(split(t)[k])
OpenGitHub == <<"O", "p", "e", "n", " ", "G", "i", "t", "H", "u", "b">>

\* C40: the correction changes only misspelled tokens and is idempotent: a
\* query none of whose tokens is misspelled comes back unchanged, a token that
\* is not misspelled comes back in the case it was written in, and correcting
\* the corrected query gives the corrected query
C40_CorrectionMinimalAndIdempotent ==
    /\ corrector.phase \in {"once", "twice"} =>
          LET words == split(corrector.query)
              after == split(corrector.once)
          IN  /\ SpelledCorrectly(corrector.query) => corrector.once = corrector.query
              /\ Len(after) = Len(words)
              /\ \A k \in 1..Len(words) : ~Misspelled(words[k]) => after[k] = words[k]
    /\ corrector.phase = "twice" => corrector.twice = corrector.once

\* "Open GitHub" corrected: a b is added to the name, and one more each time
C40_GitHubMisspelled ==
    /\ corrector.phase = "twice"
    /\ corrector.query = OpenGitHub
    /\ corrector.once = SubSeq(OpenGitHub, 1, 5) \o <<"g", "i", "t", "h", "u", "b", "b">>
    /\ corrector.twice = corrector.once \o <<"b">>

====
